---- MODULE Spec2Model ----
(***************************************************************************)
(* Recipe catalog: the Recipe entity (ingredients_list, difficulty), the   *)
(* search form, the list view's filter pipeline and the chart rendering.   *)
(*                                                                         *)
(* Text is modelled as a sequence of one-character strings, so that        *)
(* splitting, trimming and substring search are computed character by      *)
(* character.  An optional value (Python None / a missing request key) is  *)
(* the empty tuple, a present value v is <<v>>.                            *)
(***************************************************************************)
EXTENDS Integers, Sequences, FiniteSets, TLC

VARIABLES
    users,      \* auth.User table: set of usernames with an account
    session,    \* the client's session: None or Some(username)
    store,      \* Recipe table: its rows in the order an unordered query returns them
    plt_open,   \* number of figures open in the process-wide pyplot registry
    response,   \* the response to the request in flight, None when idle
    recipe,     \* a Recipe instance under test (pure-function specifications)
    ret,        \* what the method or function called directly returned, None before
    next_id,    \* the primary key the Recipe table assigns to the next row
    pyplot,     \* the figures of the pyplot registry with their artists, the
                \* last one the current figure (chart specifications)
    threads     \* the get_chart invocations in progress, one per request thread

vars == <<users, session, store, plt_open, response, recipe, ret, next_id, pyplot, threads>>

-----------------------------------------------------------------------------
(* Bounds of the model *)

MaxRecipes == 2      \* rows the Recipe table may hold
MaxTextLen == 5      \* length of an ingredients text in SpecIngredients
MaxDiffLen == 7      \* length of an ingredients text in SpecDifficulty
MaxTime == 11        \* largest cooking time in SpecDifficulty
MaxFieldLen == 4     \* length of a name or ingredients text in SpecSearch
MaxTermLen == 2      \* length of a search term in SpecSearch
MaxFigures == 4      \* figures the pyplot registry holds at most in SpecChart

-----------------------------------------------------------------------------
(* Optional values and text *)

None == <<>>
Some(v) == <<v>>

\* Python truthiness of request.GET.get(key): a present, non-empty string.
TruthyText(opt) == opt # None /\ opt[1] # <<>>
TruthyChoice(opt) == opt # None /\ opt[1] # ""

\* Characters str.strip() removes (those that occur in the model's texts).
Whitespace == {" ", "\t"}

\* The characters of the model's texts.
Chars == {"a", "b", ",", " ", "\t"}

Lower(c) == CASE c = "A" -> "a" [] c = "B" -> "b" [] OTHER -> c

LowerText(s) == [i \in 1..Len(s) |-> Lower(s[i])]

\* All texts over alphabet `cs` of length at most n.
RECURSIVE TextsUpTo(_, _)
TextsUpTo(cs, n) ==
    IF n = 0 THEN {<<>>}
    ELSE LET shorter == TextsUpTo(cs, n - 1)
         IN  shorter \cup {Append(s, c) : s \in {t \in shorter : Len(t) = n - 1}, c \in cs}

\* str.split(','): the maximal comma-free pieces, in order; never empty.
RECURSIVE split(_)
split(s) ==
    IF \A i \in 1..Len(s) : s[i] # ","
    THEN <<s>>
    ELSE LET i == CHOOSE k \in 1..Len(s) :
                      s[k] = "," /\ \A j \in 1..(k - 1) : s[j] # ","
         IN  <<SubSeq(s, 1, i - 1)>> \o split(SubSeq(s, i + 1, Len(s)))

RECURSIVE lstrip(_)
lstrip(s) ==
    IF s # <<>> /\ Head(s) \in Whitespace THEN lstrip(Tail(s)) ELSE s

RECURSIVE rstrip(_)
rstrip(s) ==
    IF s # <<>> /\ s[Len(s)] \in Whitespace
    THEN rstrip(SubSeq(s, 1, Len(s) - 1))
    ELSE s

\* str.strip()
strip(s) == rstrip(lstrip(s))

\* `needle in haystack` for text: a contiguous occurrence.
Contains(haystack, needle) ==
    \E i \in 0..(Len(haystack) - Len(needle)) :
        \A j \in 1..Len(needle) : haystack[i + j] = needle[j]

\* A substring match that tells upper case from lower case.
contains_exact(field, term) == Contains(field, term)

\* The ORM's field__icontains lookup: case-insensitive substring match.
icontains(field, term) == Contains(LowerText(field), LowerText(term))

-----------------------------------------------------------------------------
(* Recipe entity *)

CATEGORY_CHOICES == {"breakfast", "lunch", "dinner", "dessert", "snack"}

NAME_MAX_LENGTH == 120

\* Recipe.ingredients_list(), with the strip of each item dropped.
ingredients_list_nostrip(r) ==
    IF r.ingredients = <<>> THEN <<>>
    ELSE SelectSeq(split(r.ingredients), LAMBDA item : strip(item) # <<>>)

\* Recipe.ingredients_list(): [item.strip() for item in split(',') if item.strip()]
ingredients_list(r) ==
    IF r.ingredients = <<>> THEN <<>>
    ELSE LET items == split(r.ingredients)
             kept == SelectSeq(items, LAMBDA item : strip(item) # <<>>)
         IN  [k \in 1..Len(kept) |-> strip(kept[k])]

\* Recipe.difficulty() with the time threshold made inclusive (<= 10).
difficulty_inclusive(r) ==
    LET num_ingredients == Len(ingredients_list(r))
    IN  IF r.cooking_time <= 10 /\ num_ingredients < 4 THEN "Easy"
        ELSE IF r.cooking_time <= 10 /\ num_ingredients >= 4 THEN "Medium"
        ELSE IF r.cooking_time >= 10 /\ num_ingredients < 4 THEN "Intermediate"
        ELSE "Hard"

\* Recipe.difficulty()
difficulty(r) ==
    LET num_ingredients == Len(ingredients_list(r))
    IN  IF r.cooking_time < 10 /\ num_ingredients < 4 THEN "Easy"
        ELSE IF r.cooking_time < 10 /\ num_ingredients >= 4 THEN "Medium"
        ELSE IF r.cooking_time >= 10 /\ num_ingredients < 4 THEN "Intermediate"
        ELSE "Hard"

DIFFICULTY_LABELS == {"Easy", "Medium", "Intermediate", "Hard"}

-----------------------------------------------------------------------------
(* RecipeSearchForm *)

CHART_CHOICES == {"#1", "#2", "#3"}

DIFFICULTY_CHOICES == {"", "Easy", "Medium", "Intermediate", "Hard"}

SEARCH_MAX_LENGTH == 120

\* QueryDict.get(key): the submitted value, None when the key is missing.
\* `data` is None for an unbound form.
FieldValue(data, key) == IF data = None THEN None ELSE data[1][key]

\* An empty QueryDict is falsy: `data or None`.
DataOrNone(data) ==
    IF data # None /\ \A k \in DOMAIN data[1] : data[1][k] = None THEN None ELSE data

\* CharField(max_length=120, required=False).clean: None becomes '', the value
\* is stripped, and a non-empty value longer than max_length is an error.
CharFieldValid(v) ==
    v = None \/ Len(strip(v[1])) <= SEARCH_MAX_LENGTH

\* CharField.clean's cleaned value.
CharFieldClean(v) == IF v = None THEN <<>> ELSE strip(v[1])

\* ChoiceField.clean: an empty value is an error iff the field is required, a
\* non-empty value must be one of the choices.
ChoiceFieldValid(v, choices, required) ==
    IF v = None \/ v = Some("")
    THEN ~required
    ELSE v[1] \in choices

\* is_valid with chart_type declared required=False.
is_valid_chart_optional(data) ==
    /\ data # None
    /\ CharFieldValid(FieldValue(data, "recipe_name"))
    /\ CharFieldValid(FieldValue(data, "ingredient"))
    /\ ChoiceFieldValid(FieldValue(data, "chart_type"), CHART_CHOICES, FALSE)
    /\ ChoiceFieldValid(FieldValue(data, "difficulty"), DIFFICULTY_CHOICES, FALSE)

\* RecipeSearchForm(data).is_valid(): bound, and every field cleans.
is_valid(data) ==
    /\ data # None
    /\ CharFieldValid(FieldValue(data, "recipe_name"))
    /\ CharFieldValid(FieldValue(data, "ingredient"))
    /\ ChoiceFieldValid(FieldValue(data, "chart_type"), CHART_CHOICES, TRUE)
    /\ ChoiceFieldValid(FieldValue(data, "difficulty"), DIFFICULTY_CHOICES, FALSE)

-----------------------------------------------------------------------------
(* utils.get_graph / utils.get_chart *)

PNG_SIGNATURE == <<137, 80, 78, 71, 13, 10, 26, 10>>

B64_ALPHABET ==
    <<"A", "B", "C", "D", "E", "F", "G", "H", "I", "J", "K", "L", "M", "N", "O", "P",
      "Q", "R", "S", "T", "U", "V", "W", "X", "Y", "Z", "a", "b", "c", "d", "e", "f",
      "g", "h", "i", "j", "k", "l", "m", "n", "o", "p", "q", "r", "s", "t", "u", "v",
      "w", "x", "y", "z", "0", "1", "2", "3", "4", "5", "6", "7", "8", "9", "+", "/">>

\* base64.b64encode: three bytes become four characters, the tail is padded.
RECURSIVE b64encode(_)
b64encode(bytes) ==
    IF bytes = <<>> THEN <<>>
    ELSE LET n  == Len(bytes)
             b1 == bytes[1]
             b2 == IF n >= 2 THEN bytes[2] ELSE 0
             b3 == IF n >= 3 THEN bytes[3] ELSE 0
             c1 == B64_ALPHABET[(b1 \div 4) + 1]
             c2 == B64_ALPHABET[((b1 % 4) * 16 + (b2 \div 16)) + 1]
             c3 == IF n >= 2 THEN B64_ALPHABET[((b2 % 16) * 4 + (b3 \div 64)) + 1] ELSE "="
             c4 == IF n >= 3 THEN B64_ALPHABET[(b3 % 64) + 1] ELSE "="
         IN  <<c1, c2, c3, c4>> \o
             (IF n > 3 THEN b64encode(SubSeq(bytes, 4, n)) ELSE <<>>)

\* One byte pair per artist on the figure: its kind and its value.
ArtistCode(kind) == CASE kind = "bar" -> 1 [] kind = "wedge" -> 2 [] OTHER -> 3

RECURSIVE ArtistBytes(_)
ArtistBytes(fig) ==
    IF fig = <<>> THEN <<>>
    ELSE <<ArtistCode(Head(fig).kind), Head(fig).value % 256>> \o ArtistBytes(Tail(fig))

\* plt.savefig(buffer, format='png') of the current figure: the PNG signature
\* followed by the rendered artists.
savefig(fig) == PNG_SIGNATURE \o ArtistBytes(fig)

\* get_graph(): the current (last created) figure saved as PNG, base64-encoded
\* and decoded to text.
get_graph(figs) == b64encode(savefig(figs[Len(figs)]))

\* Series.value_counts(): the distinct values with their counts, largest count
\* first, equal counts in order of first appearance.
FirstIndex(col, v) == CHOOSE i \in 1..Len(col) : col[i] = v /\ \A j \in 1..(i - 1) : col[j] # v

Count(col, v) == Cardinality({i \in 1..Len(col) : col[i] = v})

value_counts(col) ==
    LET vals == {col[i] : i \in 1..Len(col)}
        Before(a, b) == \/ Count(col, a) > Count(col, b)
                        \/ Count(col, a) = Count(col, b) /\ FirstIndex(col, a) < FirstIndex(col, b)
    IN  [k \in 1..Cardinality(vals) |->
            LET v == CHOOSE x \in vals : Cardinality({y \in vals : Before(y, x)}) = k - 1
            IN  [index |-> v, count |-> Count(col, v)]]

PIE_COLORS == <<"#2ecc71", "#f39c12", "#e67e22", "#e74c3c">>

\* The artists get_chart draws on the new figure for a chart type.
DrawChart(chart_type, data) ==
    CASE chart_type = Some("#1") ->
            [i \in 1..Len(data) |->
                [kind |-> "bar", label |-> data[i].name, value |-> data[i].cooking_time,
                 color |-> "#3498db"]]
      [] chart_type = Some("#2") ->
            LET vc == value_counts([i \in 1..Len(data) |-> data[i].difficulty])
            IN  [k \in 1..Len(vc) |->
                    [kind |-> "wedge", label |-> vc[k].index, value |-> vc[k].count,
                     color |-> PIE_COLORS[((k - 1) % Len(PIE_COLORS)) + 1]]]
      [] chart_type = Some("#3") ->
            [i \in 1..Len(data) |->
                [kind |-> "point", label |-> data[i].name, value |-> data[i].cooking_time,
                 color |-> "#9b59b6"]]
      [] OTHER -> <<>>   \* print('Unknown chart type')

\* get_chart returning the encoded text of an empty buffer.
get_chart_unsaved(figs, chart_type, data) ==
    [figs |-> <<<<>>, DrawChart(chart_type, data)>>, chart |-> Some(b64encode(<<>>))]

\* get_chart drawing on the current figure as it finds it.
get_chart_on_current(figs, chart_type, data) ==
    LET present == IF figs = <<>> THEN << <<>> >> ELSE figs
        drawn   == [present EXCEPT ![Len(present)] = @ \o DrawChart(chart_type, data)]
    IN  [figs |-> drawn, chart |-> Some(get_graph(drawn))]

\* get_chart(chart_type, data): switch_backend closes every open figure, clf
\* clears the current figure (creating one when none is open), plt.figure
\* opens a second one, the chart is drawn on it and saved.  A figure is the
\* sequence of its artists.  Returns the figure registry and the chart.
get_chart(figs, chart_type, data) ==
    LET closed  == <<>>
        cleared == Append(closed, <<>>)
        opened  == Append(cleared, <<>>)
        drawn   == [opened EXCEPT ![Len(opened)] = DrawChart(chart_type, data)]
    IN  [figs |-> drawn, chart |-> Some(get_graph(drawn))]

\* plt.switch_backend('AGG').  Switching the backend closes every open
\* figure; a call that names the backend already in use closes them in the
\* matplotlib releases that treat it as a switch and leaves them open in the
\* others.  The code pins no release, so after the first call of the
\* process either happens.
switch_backend(figs, closes) == IF closes THEN <<>> ELSE figs

\* get_chart in a process whose switch_backend leaves the open figures: clf
\* clears the current one (the figure the previous call drew on), plt.figure
\* opens one more, the chart is drawn on it and saved.  No statement of
\* get_chart or get_graph closes a figure.
get_chart_kept(figs, chart_type, data) ==
    LET kept    == switch_backend(figs, FALSE)
        present == IF kept = <<>> THEN << <<>> >> ELSE kept
        cleared == [present EXCEPT ![Len(present)] = <<>>]
        opened  == Append(cleared, <<>>)
        drawn   == [opened EXCEPT ![Len(opened)] = DrawChart(chart_type, data)]
    IN  [figs |-> drawn, chart |-> Some(get_graph(drawn))]

-----------------------------------------------------------------------------
(* RecipeListView *)

\* qs.filter(name__icontains=recipe_name), applied `if recipe_name:`
filter_name(qs, recipe_name) ==
    IF TruthyText(recipe_name)
    THEN SelectSeq(qs, LAMBDA r : icontains(r.name, recipe_name[1]))
    ELSE qs

\* The ingredient filter matching the term against the parsed ingredients
\* instead of the raw text.
filter_ingredient_tokens(qs, ingredient) ==
    IF TruthyText(ingredient)
    THEN SelectSeq(qs, LAMBDA r :
             \E k \in 1..Len(ingredients_list(r)) :
                 icontains(ingredients_list(r)[k], ingredient[1]))
    ELSE qs

\* qs.filter(ingredients__icontains=ingredient), applied `if ingredient:`
filter_ingredient(qs, ingredient) ==
    IF TruthyText(ingredient)
    THEN SelectSeq(qs, LAMBDA r : icontains(r.ingredients, ingredient[1]))
    ELSE qs

\* The category filter applied `if category is not None:`.
filter_category_not_none(qs, category) ==
    IF category # None
    THEN SelectSeq(qs, LAMBDA r : r.category = category[1])
    ELSE qs

\* qs.filter(category=category), applied `if category:`
filter_category(qs, category) ==
    IF TruthyChoice(category)
    THEN SelectSeq(qs, LAMBDA r : r.category = category[1])
    ELSE qs

\* The rows the loop `for recipe in qs` of the difficulty pass iterates, by
\* id: the rows of qs as filtered so far; no row when no difficulty is given.
difficulty_pass(qs, wanted) ==
    IF TruthyChoice(wanted) THEN [i \in 1..Len(qs) |-> qs[i].id] ELSE <<>>

\* The difficulty filter skipped.
filter_difficulty_skipped(qs, wanted) == qs

\* The manual difficulty pass: collect the ids of the rows of qs whose
\* difficulty() matches, then qs.filter(id__in=filtered_recipes).
filter_difficulty(qs, wanted) ==
    IF TruthyChoice(wanted)
    THEN LET matching == SelectSeq(qs, LAMBDA r : difficulty(r) = wanted[1])
             filtered_recipes == {matching[i].id : i \in 1..Len(matching)}
         IN  SelectSeq(qs, LAMBDA r : r.id \in filtered_recipes)
    ELSE qs

\* The name, ingredient and category filters in the order of the code,
\* starting from Recipe.objects.all().
stored_filters(all, data) ==
    filter_category(
        filter_ingredient(
            filter_name(all, FieldValue(data, "recipe_name")),
            FieldValue(data, "ingredient")),
        FieldValue(data, "category"))

\* All four filters: the difficulty pass runs on what the first three left.
apply_filters(all, data) ==
    filter_difficulty(stored_filters(all, data), FieldValue(data, "difficulty"))

\* annotate with the difficulty column attached in reverse row order.
annotate_reversed(qs) ==
    LET difficulty_col == [i \in 1..Len(qs) |-> difficulty(qs[Len(qs) + 1 - i])]
        count_col      == [i \in 1..Len(qs) |-> Len(ingredients_list(qs[i]))]
    IN  [i \in 1..Len(qs) |->
            [id |-> qs[i].id, name |-> qs[i].name, cooking_time |-> qs[i].cooking_time,
             ingredients |-> qs[i].ingredients, category |-> qs[i].category,
             user_id |-> qs[i].user,
             difficulty |-> difficulty_col[i], ingredients_count |-> count_col[i]]]

\* pd.DataFrame(qs.values()) with the two computed columns added: the
\* difficulty column and the ingredients_count column are lists built by
\* iterating qs again, attached to the rows by position.
annotate(qs) ==
    LET difficulty_col == [i \in 1..Len(qs) |-> difficulty(qs[i])]
        count_col      == [i \in 1..Len(qs) |-> Len(ingredients_list(qs[i]))]
    IN  [i \in 1..Len(qs) |->
            [id |-> qs[i].id, name |-> qs[i].name, cooking_time |-> qs[i].cooking_time,
             ingredients |-> qs[i].ingredients, category |-> qs[i].category,
             user_id |-> qs[i].user,
             difficulty |-> difficulty_col[i], ingredients_count |-> count_col[i]]]

\* recipes_df.to_html(columns=[name, cooking_time, difficulty,
\* ingredients_count, category]): the table rows with those columns.
to_html(df) ==
    [i \in 1..Len(df) |->
        [name |-> df[i].name, cooking_time |-> df[i].cooking_time,
         difficulty |-> df[i].difficulty, ingredients_count |-> df[i].ingredients_count,
         category |-> df[i].category]]

\* The guard of the search branch, entered for any submitted data.
search_performed_unvalidated(method, form) == method \in {"POST", "GET"}

\* `if self.request.method in ['POST', 'GET'] and form.is_valid():`
search_performed(method, form) == method \in {"POST", "GET"} /\ form.is_valid

\* RecipeListView.get_context_data for an authenticated request.  `figs` is
\* the pyplot figure registry.  The result holds the context entries form
\* (bound / valid), recipes_df and chart, the registry afterwards, and the
\* handler's locals at return: qs, the DataFrame df and the rows the
\* difficulty loop iterated (empty when the search branch was not entered,
\* which `searched` records).
get_context_data(all, figs, method, data) ==
    LET bound == DataOrNone(data)
        form  == [is_bound |-> bound # None, is_valid |-> is_valid(bound)]
    IN  IF search_performed(method, form)
        THEN LET qs   == apply_filters(all, data)
                 loop == difficulty_pass(stored_filters(all, data),
                                         FieldValue(data, "difficulty"))
             IN  IF qs # <<>>   \* qs.exists()
                 THEN LET df == annotate(qs)
                          gc == get_chart(figs, FieldValue(data, "chart_type"), df)
                      IN  [form |-> form, recipes_df |-> Some(to_html(df)),
                           chart |-> gc.chart, figs |-> gc.figs,
                           searched |-> TRUE, qs |-> qs, df |-> df, loop |-> loop]
                 ELSE [form |-> form, recipes_df |-> None, chart |-> None,
                       figs |-> figs, searched |-> TRUE, qs |-> qs, df |-> <<>>,
                       loop |-> loop]
        ELSE [form |-> form, recipes_df |-> None, chart |-> None,
              figs |-> figs, searched |-> FALSE, qs |-> <<>>, df |-> <<>>,
              loop |-> <<>>]

-----------------------------------------------------------------------------
(* Initial state *)

\* The state of the application before any request.
InitApp ==
    /\ users = {}
    /\ session = None
    /\ store = <<>>
    /\ plt_open = 0
    /\ response = None
    /\ next_id = 1
    /\ pyplot = <<>>
    /\ threads = <<>>

appVars == <<users, session, store, plt_open, response, next_id, pyplot, threads>>

-----------------------------------------------------------------------------
(* Requests *)

Usernames == {"u1", "u2"}

\* Creation forms a client submits: the POST keys name, cooking_time,
\* ingredients, category, and a key `user` that is no field of the form.
\* Valid ones of difficulty Easy, Intermediate and Hard, one with a blank
\* name, one without cooking time and with an unknown category, a valid
\* one that names another account as user, and ones without ingredients,
\* with blank ingredients, with a negative cooking time, with a name of
\* NAME_MAX_LENGTH + 1 characters and without name.
CreateForms ==
    { [name |-> Some(<<"A", "b">>), cooking_time |-> Some(9),
       ingredients |-> Some(<<"a", ",", "b">>), category |-> Some("lunch"),
       user |-> None],
      [name |-> Some(<<"a", "B">>), cooking_time |-> Some(10),
       ingredients |-> Some(<<" ", "b", " ">>), category |-> Some("lunch"),
       user |-> None],
      [name |-> Some(<<"B", "a">>), cooking_time |-> Some(10),
       ingredients |-> Some(<<"a", ",", " ", "B", ",", ",", "b", " ", ",", "a">>),
       category |-> Some("dinner"), user |-> None],
      [name |-> Some(<<" ">>), cooking_time |-> Some(10),
       ingredients |-> Some(<<"a">>), category |-> Some("lunch"), user |-> None],
      [name |-> Some(<<"a">>), cooking_time |-> None,
       ingredients |-> Some(<<"a">>), category |-> Some("brunch"), user |-> None],
      [name |-> Some(<<"A", "b">>), cooking_time |-> Some(9),
       ingredients |-> Some(<<"a", ",", "b">>), category |-> Some("lunch"),
       user |-> Some("u2")],
      [name |-> Some(<<"a">>), cooking_time |-> Some(9),
       ingredients |-> None, category |-> Some("lunch"), user |-> None],
      [name |-> Some(<<"a">>), cooking_time |-> Some(9),
       ingredients |-> Some(<<" ", "\t">>), category |-> Some("lunch"), user |-> None],
      [name |-> Some(<<"a">>), cooking_time |-> Some(-1),
       ingredients |-> Some(<<"a">>), category |-> Some("lunch"), user |-> None],
      [name |-> Some([i \in 1..(NAME_MAX_LENGTH + 1) |-> "a"]), cooking_time |-> Some(9),
       ingredients |-> Some(<<"a">>), category |-> Some("lunch"), user |-> None],
      [name |-> None, cooking_time |-> Some(9),
       ingredients |-> Some(<<"a">>), category |-> Some("lunch"), user |-> None] }

NoData ==
    [recipe_name |-> None, ingredient |-> None, category |-> None,
     difficulty |-> None, chart_type |-> None]

\* Search parameters a client sends to the list view: every combination of a
\* present or missing name, ingredient, category and difficulty criterion with
\* each chart type, and requests with no parameter at all, without chart type,
\* with an unknown chart type or difficulty, with empty values, and with a
\* category that is no choice.
SearchData ==
    [recipe_name : {None, Some(<<"a", "B">>)},
     ingredient  : {None, Some(<<",", "b">>)},
     category    : {None, Some("lunch")},
     difficulty  : {None, Some("Easy"), Some("Hard")},
     chart_type  : {Some("#1"), Some("#2"), Some("#3")}]
    \cup
    { NoData,
      [NoData EXCEPT !.recipe_name = Some(<<"a", "B">>)],
      [NoData EXCEPT !.chart_type = Some("#4")],
      [NoData EXCEPT !.chart_type = Some("")],
      [NoData EXCEPT !.chart_type = Some("#1"), !.difficulty = Some("Expert")],
      [NoData EXCEPT !.chart_type = Some("#2"), !.recipe_name = Some(<<>>),
                     !.ingredient = Some(<<>>), !.category = Some(""),
                     !.difficulty = Some("")],
      [NoData EXCEPT !.chart_type = Some("#3"), !.category = Some("brunch")] }

NoContext ==
    [form |-> [is_bound |-> FALSE, is_valid |-> FALSE], recipes_df |-> None,
     chart |-> None, object |-> None, error_message |-> None]

NoRequest == [method |-> "GET", data |-> None]

\* A response: the view that produced it, the request it answers, the status,
\* the redirect target, the template context, and for the list view the
\* handler's locals at return.
NoLocals == [searched |-> FALSE, qs |-> <<>>, df |-> <<>>, loop |-> <<>>]

Response(view, request, status, location, context, locals) ==
    Some([view |-> view, request |-> request, status |-> status, location |-> location,
          context |-> context, locals |-> locals])

\* LoginRequiredMixin.handle_no_permission: redirect to the login page.
RedirectToLogin(view, request) ==
    Response(view, request, 302, Some("login"), NoContext, NoLocals)

-----------------------------------------------------------------------------
(* Authentication views *)

\* The password every account of the model has, and one that is not it.
Passwords == {"pw", "other"}

\* POST data of the login form: username and password, present or missing.
LoginData ==
    [username : {None} \cup {Some(u) : u \in Usernames},
     password : {None} \cup {Some(p) : p \in Passwords}]

\* POST data of the signup form: username, password1 and password2.
SignupData ==
    [username  : {Some(u) : u \in Usernames},
     password1 : {Some("pw")},
     password2 : {None, Some("pw"), Some("other")}]

\* django.contrib.auth.authenticate(username=, password=): the account when
\* it exists and the password is its password, None otherwise.
authenticate(accounts, username, password) ==
    IF /\ username # None /\ password # None
       /\ username[1] \in accounts /\ password[1] = "pw"
    THEN Some(username[1])
    ELSE None

\* A login form that only requires its two fields.
AuthenticationFormValid_fields_only(accounts, data) ==
    data.username # None /\ data.password # None

\* AuthenticationForm(data=request.POST).is_valid(): both fields are
\* required, and the form's clean() authenticates the credentials itself and
\* reports an invalid login when that returns no user.
AuthenticationFormValid(accounts, data) ==
    /\ data.username # None /\ data.password # None
    /\ authenticate(accounts, data.username, data.password) # None

\* A signup form that accepts a username already taken.
UserCreationFormValid_any_username(accounts, data) ==
    /\ data.username # None
    /\ data.password1 # None /\ data.password2 # None
    /\ data.password1 = data.password2

\* UserCreationForm(data=request.POST).is_valid(): the username is free and
\* the two passwords are given and equal.
UserCreationFormValid(accounts, data) ==
    /\ data.username # None /\ data.username[1] \notin accounts
    /\ data.password1 # None /\ data.password2 # None
    /\ data.password1 = data.password2

\* signup_view, POST: a valid form is saved as a new account, which is logged
\* in, and the answer redirects to the recipe list; an invalid form is
\* rendered again with the error message.
Signup(data) ==
    /\ response = None
    /\ LET request == [method |-> "POST", data |-> Some(data)]
       IN  IF UserCreationFormValid(users, data)
           THEN /\ users' = users \cup {data.username[1]}
                /\ session' = Some(data.username[1])
                /\ response' = Response("signup", request, 302, Some("recipes-list"),
                                        NoContext, NoLocals)
           ELSE /\ UNCHANGED <<users, session>>
                /\ response' = Response("signup", request, 200, None,
                                        [NoContext EXCEPT !.error_message =
                                            Some("Please correct the errors below")],
                                        NoLocals)
    /\ UNCHANGED <<store, plt_open, recipe, ret, next_id, pyplot, threads>>

\* login_view, POST: with a valid form the credentials are authenticated
\* again and the user, when there is one, is logged in and redirected to the
\* recipe list; the error message is set in the else branch of
\* `if form.is_valid()`, and the page is rendered in every other case.
Login(data) ==
    /\ response = None
    /\ LET request == [method |-> "POST", data |-> Some(data)]
           user    == authenticate(users, data.username, data.password)
       IN  IF AuthenticationFormValid(users, data)
           THEN IF user # None
                THEN /\ session' = user
                     /\ response' = Response("login", request, 302, Some("recipes-list"),
                                             NoContext, NoLocals)
                ELSE /\ UNCHANGED session
                     /\ response' = Response("login", request, 200, None,
                                             NoContext, NoLocals)
           ELSE /\ UNCHANGED session
                /\ response' = Response("login", request, 200, None,
                                        [NoContext EXCEPT !.error_message =
                                            Some("Invalid username or password")],
                                        NoLocals)
    /\ UNCHANGED <<users, store, plt_open, recipe, ret, next_id, pyplot, threads>>

\* A logout view that renders the success page only.
Logout_keep_session ==
    /\ response = None
    /\ response' = Response("logout", NoRequest, 200, None, NoContext, NoLocals)
    /\ UNCHANGED <<users, session, store, plt_open, recipe, ret, next_id, pyplot, threads>>

\* logout_view: logout(request) ends the session's authentication, then the
\* success page is rendered.
Logout ==
    /\ response = None
    /\ session' = None
    /\ response' = Response("logout", NoRequest, 200, None, NoContext, NoLocals)
    /\ UNCHANGED <<users, store, plt_open, recipe, ret, next_id, pyplot, threads>>

-----------------------------------------------------------------------------
(* Recipe views *)

\* The ModelForm accepting any cooking time.
CreateFormValid_any_time(form) ==
    /\ form.name # None /\ strip(form.name[1]) # <<>>
    /\ Len(strip(form.name[1])) <= NAME_MAX_LENGTH
    /\ form.cooking_time # None
    /\ form.ingredients # None /\ strip(form.ingredients[1]) # <<>>
    /\ form.category # None /\ form.category[1] \in CATEGORY_CHOICES

\* The ModelForm accepting a name that is blank once stripped.
CreateFormValid_blank_name(form) ==
    /\ form.name # None
    /\ Len(strip(form.name[1])) <= NAME_MAX_LENGTH
    /\ form.cooking_time # None /\ form.cooking_time[1] >= 0
    /\ form.ingredients # None /\ strip(form.ingredients[1]) # <<>>
    /\ form.category # None /\ form.category[1] \in CATEGORY_CHOICES

\* The ModelForm of RecipeCreateView: name, cooking_time and ingredients are
\* required, name has at most 120 characters, cooking_time is not negative,
\* category is one of the choices.
CreateFormValid(form) ==
    /\ form.name # None /\ strip(form.name[1]) # <<>>
    /\ Len(strip(form.name[1])) <= NAME_MAX_LENGTH
    /\ form.cooking_time # None /\ form.cooking_time[1] >= 0
    /\ form.ingredients # None /\ strip(form.ingredients[1]) # <<>>
    /\ form.category # None /\ form.category[1] \in CATEGORY_CHOICES

\* form.errors of the ModelForm: the fields whose value did not validate.
form_errors(form) ==
    {f \in {"name"} :
        \/ form.name = None \/ strip(form.name[1]) = <<>>
        \/ Len(strip(form.name[1])) > NAME_MAX_LENGTH}
    \cup {f \in {"cooking_time"} : form.cooking_time = None \/ form.cooking_time[1] < 0}
    \cup {f \in {"ingredients"} :
             form.ingredients = None \/ strip(form.ingredients[1]) = <<>>}
    \cup {f \in {"category"} :
             form.category = None \/ form.category[1] \notin CATEGORY_CHOICES}

\* The context of the creation page rendered again: the bound form with its errors.
InvalidFormContext(form) ==
    [NoContext EXCEPT !.form = [is_bound |-> TRUE, is_valid |-> FALSE,
                                errors |-> form_errors(form)]]

\* The creation view taking the owner from the submitted data when it names one.
RecipeCreate_owner_from_data(form) ==
    /\ response = None
    /\ next_id <= MaxRecipes
    /\ LET request == [method |-> "POST", data |-> Some(form)]
       IN  IF session = None
           THEN /\ response' = RedirectToLogin("recipe-add", request)
                /\ UNCHANGED <<store, next_id>>
           ELSE IF CreateFormValid(form)
           THEN /\ store' = Append(store,
                       [id |-> next_id, name |-> strip(form.name[1]),
                        cooking_time |-> form.cooking_time[1],
                        ingredients |-> strip(form.ingredients[1]),
                        category |-> form.category[1],
                        user |-> IF form.user # None THEN form.user[1] ELSE session[1]])
                /\ next_id' = next_id + 1
                /\ response' = Response("recipe-add", request, 302, Some("recipes-list"),
                                        NoContext, NoLocals)
           ELSE /\ response' = Response("recipe-add", request, 200, None,
                                        InvalidFormContext(form), NoLocals)
                /\ UNCHANGED <<store, next_id>>
    /\ UNCHANGED <<users, session, plt_open, recipe, ret, pyplot, threads>>

\* POST /recipes/add/: the ModelForm reads only its declared fields;
\* RecipeCreateView.form_valid sets the owner to the session's user and saves;
\* an invalid form is rendered again.  The row gets the next primary key of
\* the table, which is never handed out twice.
RecipeCreate(form) ==
    /\ response = None
    /\ next_id <= MaxRecipes
    /\ LET request == [method |-> "POST", data |-> Some(form)]
       IN  IF session = None
           THEN /\ response' = RedirectToLogin("recipe-add", request)
                /\ UNCHANGED <<store, next_id>>
           ELSE IF CreateFormValid(form)
           THEN /\ store' = Append(store,
                       [id |-> next_id, name |-> strip(form.name[1]),
                        cooking_time |-> form.cooking_time[1],
                        ingredients |-> strip(form.ingredients[1]),
                        category |-> form.category[1], user |-> session[1]])
                /\ next_id' = next_id + 1
                /\ response' = Response("recipe-add", request, 302, Some("recipes-list"),
                                        NoContext, NoLocals)
           ELSE /\ response' = Response("recipe-add", request, 200, None,
                                        InvalidFormContext(form), NoLocals)
                /\ UNCHANGED <<store, next_id>>
    /\ UNCHANGED <<users, session, plt_open, recipe, ret, pyplot, threads>>

\* The request data always taken from the query parameters.
request_data_query_only(method, GET, POST) == GET

\* `data = self.request.POST` for a POST, `self.request.GET` for a GET,
\* None for any other method.
request_data(method, GET, POST) ==
    IF method = "POST" THEN POST
    ELSE IF method = "GET" THEN GET
    ELSE None

\* RecipeListView.get / post for an authenticated request whose parameters
\* are `params`: a GET carries them in the query string, a POST in the body;
\* post() delegates to get(), which renders get_context_data.
list_view(all, figs, method, params) ==
    LET GET  == IF method = "GET" THEN Some(params) ELSE Some(NoData)
        POST == IF method = "POST" THEN Some(params) ELSE Some(NoData)
    IN  get_context_data(all, figs, method, request_data(method, GET, POST))

\* The list view writing the rows it selected back as the Recipe table.
RecipeList_saving(method, data) ==
    /\ response = None
    /\ LET request == [method |-> method, data |-> Some(data)]
       IN  IF session = None
           THEN /\ response' = RedirectToLogin("recipes-list", request)
                /\ UNCHANGED <<plt_open, store>>
           ELSE LET c == list_view(store, [i \in 1..plt_open |-> <<>>], method, data)
                IN  /\ response' = Response("recipes-list", request, 200, None,
                                            [form |-> c.form, recipes_df |-> c.recipes_df,
                                             chart |-> c.chart, object |-> None,
                                             error_message |-> None],
                                            [searched |-> c.searched, qs |-> c.qs,
                                             df |-> c.df, loop |-> c.loop])
                    /\ plt_open' = Len(c.figs)
                    /\ store' = c.qs
    /\ UNCHANGED <<users, session, recipe, ret, next_id, pyplot, threads>>

\* GET or POST /recipes/: RecipeListView behind LoginRequiredMixin.
RecipeList(method, data) ==
    /\ response = None
    /\ LET request == [method |-> method, data |-> Some(data)]
       IN  IF session = None
           THEN /\ response' = RedirectToLogin("recipes-list", request)
                /\ UNCHANGED plt_open
           ELSE LET c == list_view(store, [i \in 1..plt_open |-> <<>>], method, data)
                IN  /\ response' = Response("recipes-list", request, 200, None,
                                            [form |-> c.form, recipes_df |-> c.recipes_df,
                                             chart |-> c.chart, object |-> None,
                                             error_message |-> None],
                                            [searched |-> c.searched, qs |-> c.qs,
                                             df |-> c.df, loop |-> c.loop])
                    /\ plt_open' = Len(c.figs)
    /\ UNCHANGED <<users, session, store, recipe, ret, next_id, pyplot, threads>>

\* The detail view answering without a login check.
RecipeDetail_public(pk) ==
    /\ response = None
    /\ IF \E i \in 1..Len(store) : store[i].id = pk
       THEN LET object == CHOOSE r \in {store[i] : i \in 1..Len(store)} : r.id = pk
            IN  response' = Response("recipe-detail", NoRequest, 200, None,
                                     [NoContext EXCEPT !.object = Some(object)], NoLocals)
       ELSE response' = Response("recipe-detail", NoRequest, 404, None,
                                 NoContext, NoLocals)
    /\ UNCHANGED <<users, session, store, plt_open, recipe, ret, next_id, pyplot, threads>>

\* GET /recipes/<pk>/: RecipeDetailView behind LoginRequiredMixin; the row
\* with that primary key is handed to the template, 404 when there is none.
RecipeDetail(pk) ==
    /\ response = None
    /\ IF session = None
       THEN response' = RedirectToLogin("recipe-detail", NoRequest)
       ELSE IF \E i \in 1..Len(store) : store[i].id = pk
       THEN LET object == CHOOSE r \in {store[i] : i \in 1..Len(store)} : r.id = pk
            IN  response' = Response("recipe-detail", NoRequest, 200, None,
                                     [NoContext EXCEPT !.object = Some(object)], NoLocals)
       ELSE response' = Response("recipe-detail", NoRequest, 404, None,
                                 NoContext, NoLocals)
    /\ UNCHANGED <<users, session, store, plt_open, recipe, ret, next_id, pyplot, threads>>

\* The client takes the response; the next request can be sent.
ClientReceive ==
    /\ response # None
    /\ response' = None
    /\ UNCHANGED <<users, session, store, plt_open, recipe, ret, next_id, pyplot, threads>>

Init ==
    /\ InitApp
    /\ recipe = [cooking_time |-> 0, ingredients |-> <<>>]
    /\ ret = None

Next ==
    \/ \E data \in SignupData : Signup(data)
    \/ \E data \in LoginData : Login(data)
    \/ Logout
    \/ \E form \in CreateForms : RecipeCreate(form)
    \/ \E method \in {"GET", "POST"}, data \in SearchData : RecipeList(method, data)
    \/ \E pk \in 1..(MaxRecipes + 1) : RecipeDetail(pk)
    \/ ClientReceive

Spec == Init /\ [][Next]_vars

-----------------------------------------------------------------------------
(* Calling get_chart directly *)

\* The Recipe rows a valid creation form can produce; get_chart does not read
\* the owner column, so one owner stands for all.
ValidRecipes ==
    {[id |-> 0, name |-> strip(f.name[1]), cooking_time |-> f.cooking_time[1],
      ingredients |-> strip(f.ingredients[1]), category |-> f.category[1], user |-> "u1"] :
        f \in {g \in CreateForms : CreateFormValid(g)}}

\* Tables of at most n rows, numbered in the order of their rows.
RECURSIVE TablesUpTo(_)
TablesUpTo(n) ==
    IF n = 0 THEN {<<>>}
    ELSE LET shorter == TablesUpTo(n - 1)
         IN  shorter \cup
             {Append(t, [r EXCEPT !.id = n]) :
                 t \in {x \in shorter : Len(x) = n - 1}, r \in ValidRecipes}

\* The DataFrames get_chart is called with.
ChartData == {annotate(qs) : qs \in TablesUpTo(MaxRecipes) \ {<<>>}}

ChartTypes == {None, Some(""), Some("#1"), Some("#2"), Some("#3"), Some("#4")}

\* One call of get_chart on the registry as the previous calls left it,
\* with either outcome of switch_backend; the call is made while the registry
\* stays within MaxFigures.  The record of the call keeps whether the
\* registry it found held a figure with artists on it.
CallGetChart(chart_type, data) ==
    \E gc \in {get_chart(pyplot, chart_type, data),
               get_chart_kept(pyplot, chart_type, data)} :
        /\ Len(gc.figs) <= MaxFigures
        /\ ret' = Some([method |-> "get_chart", chart_type |-> chart_type,
                        data |-> data, value |-> gc.chart,
                        drawn_before |-> \E i \in 1..Len(pyplot) : pyplot[i] # <<>>])
        /\ pyplot' = gc.figs
        /\ plt_open' = Len(gc.figs)
        /\ UNCHANGED <<users, session, store, response, recipe, next_id, threads>>

NextChart == \E chart_type \in ChartTypes, data \in ChartData : CallGetChart(chart_type, data)

SpecChart == Init /\ [][NextChart]_vars

-----------------------------------------------------------------------------
(* get_chart statement by statement, on request threads of one process *)

\* The request threads of the server process.
ThreadIds == {1, 2}

\* What the handlers call get_chart with: one-row result tables, with a bar
\* chart, a pie chart or an unknown chart type.
ThreadCalls ==
    [chart_type : {Some("#1"), Some("#2"), Some("#4")},
     data : {d \in ChartData : Len(d) = 1}]

\* plt.gcf(): the current figure, a new one being registered when none is open.
gcf(figs) == IF figs = <<>> THEN << <<>> >> ELSE figs

\* A request thread enters get_chart.
EnterGetChart(t, call) ==
    /\ t \notin DOMAIN threads
    /\ threads' = [u \in DOMAIN threads \cup {t} |->
                      IF u = t
                      THEN [pc |-> "switch_backend", chart_type |-> call.chart_type,
                            data |-> call.data, chart |-> None]
                      ELSE threads[u]]
    /\ UNCHANGED <<users, session, store, plt_open, response, recipe, ret, next_id, pyplot>>

\* plt.switch_backend('AGG'): closes every figure of the registry, or
\* leaves them when the backend is already in use.
SwitchBackend(t) ==
    /\ t \in DOMAIN threads /\ threads[t].pc = "switch_backend"
    /\ \E closes \in BOOLEAN : pyplot' = switch_backend(pyplot, closes)
    /\ threads' = [threads EXCEPT ![t].pc = "clf"]
    /\ plt_open' = Len(pyplot')
    /\ UNCHANGED <<users, session, store, response, recipe, ret, next_id>>

\* plt.clf(): clears the current figure.
Clf(t) ==
    /\ t \in DOMAIN threads /\ threads[t].pc = "clf"
    /\ pyplot' = [gcf(pyplot) EXCEPT ![Len(gcf(pyplot))] = <<>>]
    /\ threads' = [threads EXCEPT ![t].pc = "figure"]
    /\ plt_open' = Len(pyplot')
    /\ UNCHANGED <<users, session, store, response, recipe, ret, next_id>>

\* fig = plt.figure(figsize=(8, 5)): registers a new figure and makes it the
\* current one of the process; `fig` is not used afterwards.
Figure(t) ==
    /\ t \in DOMAIN threads /\ threads[t].pc = "figure"
    /\ pyplot' = Append(pyplot, <<>>)
    /\ threads' = [threads EXCEPT ![t].pc = "draw"]
    /\ plt_open' = Len(pyplot')
    /\ UNCHANGED <<users, session, store, response, recipe, ret, next_id>>

\* plt.bar / plt.pie / plt.plot with the labels, then plt.tight_layout():
\* they act on the current figure of the process.
Draw(t) ==
    /\ t \in DOMAIN threads /\ threads[t].pc = "draw"
    /\ pyplot' = [gcf(pyplot) EXCEPT ![Len(gcf(pyplot))] =
                      @ \o DrawChart(threads[t].chart_type, threads[t].data)]
    /\ threads' = [threads EXCEPT ![t].pc = "savefig"]
    /\ plt_open' = Len(pyplot')
    /\ UNCHANGED <<users, session, store, response, recipe, ret, next_id>>

\* chart = get_graph(): plt.savefig saves the current figure of the process.
Savefig(t) ==
    /\ t \in DOMAIN threads /\ threads[t].pc = "savefig"
    /\ pyplot' = gcf(pyplot)
    /\ threads' = [threads EXCEPT ![t].pc = "done",
                                  ![t].chart = Some(get_graph(gcf(pyplot)))]
    /\ plt_open' = Len(pyplot')
    /\ UNCHANGED <<users, session, store, response, recipe, ret, next_id>>

NextThreads ==
    \E t \in ThreadIds :
        \/ \E call \in ThreadCalls : EnterGetChart(t, call)
        \/ SwitchBackend(t)
        \/ Clf(t)
        \/ Figure(t)
        \/ Draw(t)
        \/ Savefig(t)

SpecThreads == Init /\ [][NextThreads]_vars

-----------------------------------------------------------------------------
(* Management: the sample-data loader and the deletion of accounts *)

\* The (name, time, ingredients, category) tuples of the loader.
SAMPLE_RECIPES ==
    <<
      [name |-> <<"C", "l", "a", "s", "s", "i", "c", " ", "P", "a", "n", "c",
                 "a", "k", "e", "s">>,
       cooking_time |-> 15,
       ingredients |->
         <<"f", "l", "o", "u", "r", ",", " ", "m", "i", "l", "k", ",", " ",
           "e", "g", "g", ",", " ", "s", "u", "g", "a", "r", ",", " ", "b",
           "a", "k", "i", "n", "g", " ", "p", "o", "w", "d", "e", "r", ",",
           " ", "b", "u", "t", "t", "e", "r">>,
       category |-> "breakfast"],
      [name |-> <<"V", "e", "g", "g", "i", "e", " ", "O", "m", "e", "l", "e",
                 "t", "t", "e">>,
       cooking_time |-> 10,
       ingredients |->
         <<"e", "g", "g", ",", " ", "b", "e", "l", "l", " ", "p", "e", "p",
           "p", "e", "r", ",", " ", "o", "n", "i", "o", "n", ",", " ", "t",
           "o", "m", "a", "t", "o", ",", " ", "c", "h", "e", "e", "s", "e">>,
       category |-> "breakfast"],
      [name |-> <<"G", "r", "i", "l", "l", "e", "d", " ", "C", "h", "i", "c",
                 "k", "e", "n">>,
       cooking_time |-> 30,
       ingredients |->
         <<"c", "h", "i", "c", "k", "e", "n", ",", " ", "o", "l", "i", "v",
           "e", " ", "o", "i", "l", ",", " ", "g", "a", "r", "l", "i", "c",
           ",", " ", "l", "e", "m", "o", "n", ",", " ", "p", "e", "p", "p",
           "e", "r", ",", " ", "s", "a", "l", "t">>,
       category |-> "dinner"],
      [name |-> <<"T", "o", "m", "a", "t", "o", " ", "P", "a", "s", "t", "a">>,
       cooking_time |-> 25,
       ingredients |->
         <<"p", "a", "s", "t", "a", ",", " ", "t", "o", "m", "a", "t", "o",
           ",", " ", "g", "a", "r", "l", "i", "c", ",", " ", "b", "a", "s",
           "i", "l", ",", " ", "o", "l", "i", "v", "e", " ", "o", "i", "l",
           ",", " ", "p", "a", "r", "m", "e", "s", "a", "n">>,
       category |-> "lunch"],
      [name |-> <<"B", "e", "e", "f", " ", "S", "t", "i", "r", " ", "F", "r",
                 "y">>,
       cooking_time |-> 20,
       ingredients |->
         <<"b", "e", "e", "f", ",", " ", "s", "o", "y", " ", "s", "a", "u",
           "c", "e", ",", " ", "b", "r", "o", "c", "c", "o", "l", "i", ",",
           " ", "c", "a", "r", "r", "o", "t", ",", " ", "g", "a", "r", "l",
           "i", "c", ",", " ", "g", "i", "n", "g", "e", "r">>,
       category |-> "dinner"],
      [name |-> <<"F", "r", "u", "i", "t", " ", "S", "a", "l", "a", "d">>,
       cooking_time |-> 8,
       ingredients |->
         <<"a", "p", "p", "l", "e", ",", " ", "b", "a", "n", "a", "n", "a",
           ",", " ", "o", "r", "a", "n", "g", "e", ",", " ", "g", "r", "a",
           "p", "e", "s", ",", " ", "h", "o", "n", "e", "y", ",", " ", "m",
           "i", "n", "t">>,
       category |-> "snack"],
      [name |-> <<"A", "v", "o", "c", "a", "d", "o", " ", "T", "o", "a", "s",
                 "t">>,
       cooking_time |-> 7,
       ingredients |->
         <<"b", "r", "e", "a", "d", ",", " ", "a", "v", "o", "c", "a", "d",
           "o", ",", " ", "l", "e", "m", "o", "n", ",", " ", "c", "h", "i",
           "l", "i", " ", "f", "l", "a", "k", "e", "s", ",", " ", "s", "a",
           "l", "t">>,
       category |-> "breakfast"],
      [name |-> <<"C", "h", "o", "c", "o", "l", "a", "t", "e", " ", "B", "r",
                 "o", "w", "n", "i", "e", "s">>,
       cooking_time |-> 40,
       ingredients |->
         <<"f", "l", "o", "u", "r", ",", " ", "c", "o", "c", "o", "a", ",",
           " ", "s", "u", "g", "a", "r", ",", " ", "e", "g", "g", ",", " ",
           "b", "u", "t", "t", "e", "r", ",", " ", "c", "h", "o", "c", "o",
           "l", "a", "t", "e">>,
       category |-> "dessert"],
      [name |-> <<"C", "a", "e", "s", "a", "r", " ", "S", "a", "l", "a", "d">>,
       cooking_time |-> 12,
       ingredients |->
         <<"l", "e", "t", "t", "u", "c", "e", ",", " ", "c", "r", "o", "u",
           "t", "o", "n", "s", ",", " ", "p", "a", "r", "m", "e", "s", "a",
           "n", ",", " ", "c", "h", "i", "c", "k", "e", "n", ",", " ", "c",
           "a", "e", "s", "a", "r", " ", "d", "r", "e", "s", "s", "i", "n",
           "g">>,
       category |-> "lunch"],
      [name |-> <<"F", "i", "s", "h", " ", "T", "a", "c", "o", "s">>,
       cooking_time |-> 25,
       ingredients |->
         <<"f", "i", "s", "h", ",", " ", "t", "o", "r", "t", "i", "l", "l",
           "a", ",", " ", "c", "a", "b", "b", "a", "g", "e", ",", " ", "l",
           "i", "m", "e", ",", " ", "s", "a", "l", "s", "a", ",", " ", "a",
           "v", "o", "c", "a", "d", "o">>,
       category |-> "dinner"],
      [name |-> <<"L", "e", "n", "t", "i", "l", " ", "S", "o", "u", "p">>,
       cooking_time |-> 35,
       ingredients |->
         <<"l", "e", "n", "t", "i", "l", "s", ",", " ", "c", "a", "r", "r",
           "o", "t", ",", " ", "o", "n", "i", "o", "n", ",", " ", "c", "e",
           "l", "e", "r", "y", ",", " ", "g", "a", "r", "l", "i", "c", ",",
           " ", "c", "u", "m", "i", "n">>,
       category |-> "lunch"],
      [name |-> <<"B", "a", "n", "a", "n", "a", " ", "S", "m", "o", "o", "t",
                 "h", "i", "e">>,
       cooking_time |-> 5,
       ingredients |->
         <<"b", "a", "n", "a", "n", "a", ",", " ", "m", "i", "l", "k", ",",
           " ", "h", "o", "n", "e", "y", ",", " ", "i", "c", "e">>,
       category |-> "snack"],
      [name |-> <<"M", "a", "r", "g", "a", "r", "i", "t", "a", " ", "P", "i",
                 "z", "z", "a">>,
       cooking_time |-> 18,
       ingredients |->
         <<"p", "i", "z", "z", "a", " ", "d", "o", "u", "g", "h", ",", " ",
           "t", "o", "m", "a", "t", "o", ",", " ", "m", "o", "z", "z", "a",
           "r", "e", "l", "l", "a", ",", " ", "b", "a", "s", "i", "l", ",",
           " ", "o", "l", "i", "v", "e", " ", "o", "i", "l">>,
       category |-> "dinner"],
      [name |-> <<"C", "h", "i", "c", "k", "e", "n", " ", "B", "i", "r", "y",
                 "a", "n", "i">>,
       cooking_time |-> 60,
       ingredients |->
         <<"r", "i", "c", "e", ",", " ", "c", "h", "i", "c", "k", "e", "n",
           ",", " ", "y", "o", "g", "u", "r", "t", ",", " ", "o", "n", "i",
           "o", "n", ",", " ", "s", "p", "i", "c", "e", "s", ",", " ", "s",
           "a", "f", "f", "r", "o", "n">>,
       category |-> "dinner"],
      [name |-> <<"V", "e", "g", "g", "i", "e", " ", "S", "a", "n", "d", "w",
                 "i", "c", "h">>,
       cooking_time |-> 10,
       ingredients |->
         <<"b", "r", "e", "a", "d", ",", " ", "c", "u", "c", "u", "m", "b",
           "e", "r", ",", " ", "t", "o", "m", "a", "t", "o", ",", " ", "l",
           "e", "t", "t", "u", "c", "e", ",", " ", "m", "a", "y", "o", ",",
           " ", "c", "h", "e", "e", "s", "e">>,
       category |-> "lunch"]
    >>

MaxLoadedId == 16    \* the loader runs while the next primary key is at most this

\* Accounts the loader is run for ('demo' is the default of --username).
LoaderUsernames == {"demo", "u1"}

\* The loop over SAMPLE_RECIPES: Recipe.objects.get_or_create(name=name,
\* defaults=...) creates the row when no row has the name, leaves the table
\* alone when one row has it, and raises MultipleObjectsReturned when several
\* rows have it, which ends the command with the rows created so far.
RECURSIVE load_samples(_, _, _, _)
load_samples(samples, table, id, user) ==
    IF samples = <<>>
    THEN [store |-> table, next_id |-> id, created |-> 0, raised |-> FALSE]
    ELSE LET s == Head(samples)
             found == {i \in 1..Len(table) : table[i].name = s.name}
         IN  IF Cardinality(found) > 1
             THEN [store |-> table, next_id |-> id, created |-> 0, raised |-> TRUE]
             ELSE IF found = {}
             THEN LET rest == load_samples(Tail(samples),
                                  Append(table,
                                      [id |-> id, name |-> s.name,
                                       cooking_time |-> s.cooking_time,
                                       ingredients |-> s.ingredients,
                                       category |-> s.category, user |-> user]),
                                  id + 1, user)
                  IN  [rest EXCEPT !.created = @ + 1]
             ELSE load_samples(Tail(samples), table, id, user)

\* manage.py load_sample_recipes --username <username>: the account is
\* created when missing, then the samples are loaded for it; the command
\* reports how many rows it created unless it was ended by the exception.
\* The record of the run keeps the table the run left and whether the run
\* repeats the previous one: same username, on the table that one left.
LoadSampleRecipes(username) ==
    /\ response = None
    /\ next_id <= MaxLoadedId
    /\ LET run == load_samples(SAMPLE_RECIPES, store, next_id, username)
       IN  /\ users' = users \cup {username}
           /\ store' = run.store
           /\ next_id' = run.next_id
           /\ ret' = Some([method |-> "load_sample_recipes", username |-> username,
                           value |-> IF run.raised THEN None ELSE Some(run.created),
                           store_after |-> run.store,
                           again |-> /\ ret # None
                                     /\ ret[1].username = username
                                     /\ ret[1].store_after = store])
    /\ UNCHANGED <<session, plt_open, response, recipe, pyplot, threads>>

\* user.delete() leaving the recipes of the account in the table.
DeleteUser_keep_recipes(username) ==
    /\ response = None
    /\ users' = users \ {username}
    /\ session' = IF session = Some(username) THEN None ELSE session
    /\ UNCHANGED <<store, plt_open, response, recipe, ret, next_id, pyplot, threads>>

\* user.delete(): the account goes, and with it (on_delete=CASCADE) the
\* recipes it owns; a session of that account is no longer authenticated.
\* Nothing happens when there is no such account.
DeleteUser(username) ==
    /\ response = None
    /\ users' = users \ {username}
    /\ store' = IF username \in users
                THEN SelectSeq(store, LAMBDA r : r.user # username)
                ELSE store
    /\ session' = IF session = Some(username) THEN None ELSE session
    /\ UNCHANGED <<plt_open, response, recipe, ret, next_id, pyplot, threads>>

\* A valid creation form with the name of the first sample.
SampleNameForm ==
    [name |-> Some(SAMPLE_RECIPES[1].name), cooking_time |-> Some(9),
     ingredients |-> Some(<<"a", ",", "b">>), category |-> Some("snack"),
     user |-> None]

NextStore ==
    \/ \E data \in SignupData : Signup(data)
    \/ \E data \in LoginData : Login(data)
    \/ Logout
    \/ \E form \in CreateForms \cup {SampleNameForm} : RecipeCreate(form)
    \/ \E u \in LoaderUsernames : LoadSampleRecipes(u)
    \/ \E u \in Usernames \cup LoaderUsernames : DeleteUser(u)
    \/ ClientReceive

SpecStore == Init /\ [][NextStore]_vars

-----------------------------------------------------------------------------
(* Calling the Recipe methods on an arbitrary instance *)

\* Characters of the ingredients texts the difficulty is computed on.
DiffChars == {"a", ",", " "}

InitIngredients ==
    /\ InitApp
    /\ recipe \in [cooking_time : {0}, ingredients : TextsUpTo(Chars, MaxTextLen)]
    /\ ret = None

InitDifficulty ==
    /\ InitApp
    /\ recipe \in [cooking_time : 0..MaxTime,
                   ingredients : TextsUpTo(DiffChars, MaxDiffLen)]
    /\ ret = None

CallIngredientsList ==
    /\ ret = None
    /\ ret' = Some([method |-> "ingredients_list", value |-> ingredients_list(recipe)])
    /\ UNCHANGED <<appVars, recipe>>

CallDifficulty ==
    /\ ret = None
    /\ ret' = Some([method |-> "difficulty", value |-> difficulty(recipe)])
    /\ UNCHANGED <<appVars, recipe>>

NextIngredients == CallIngredientsList

NextDifficulty == CallDifficulty

SpecIngredients == InitIngredients /\ [][NextIngredients]_vars

SpecDifficulty == InitDifficulty /\ [][NextDifficulty]_vars

-----------------------------------------------------------------------------
(* The list view over a table changed through the admin site *)

\* Cooking times entered in the admin change form.
AdminTimes == {9, 10}

\* The change form of RecipeAdmin saving recipe pk with a cooking time.  The
\* model declares no ordering and the list view's query has no order_by, so
\* where the saved row stands among the rows of that query is the database's
\* choice: in its place (a table scanned by primary key), or after the other
\* rows (a heap that stores the new version of the row behind them).
AdminChangeRecipe(pk, cooking_time, moved) ==
    /\ response = None
    /\ \E i \in 1..Len(store) : store[i].id = pk
    /\ LET i      == CHOOSE k \in 1..Len(store) : store[k].id = pk
           saved  == [store[i] EXCEPT !.cooking_time = cooking_time]
           others == SelectSeq(store, LAMBDA r : r.id # pk)
       IN  store' = IF moved THEN Append(others, saved) ELSE [store EXCEPT ![i] = saved]
    /\ UNCHANGED <<users, session, plt_open, response, recipe, ret, next_id, pyplot, threads>>

\* Searches without criteria for each chart type, and one by category.
OrderData ==
    { [NoData EXCEPT !.chart_type = Some("#1")],
      [NoData EXCEPT !.chart_type = Some("#2")],
      [NoData EXCEPT !.chart_type = Some("#3")],
      [NoData EXCEPT !.chart_type = Some("#3"), !.category = Some("lunch")] }

NextOrder ==
    \/ \E data \in SignupData : Signup(data)
    \/ \E data \in LoginData : Login(data)
    \/ Logout
    \/ \E form \in CreateForms : RecipeCreate(form)
    \/ \E pk \in 1..MaxRecipes, t \in AdminTimes, moved \in BOOLEAN :
           AdminChangeRecipe(pk, t, moved)
    \/ \E method \in {"GET", "POST"}, data \in OrderData : RecipeList(method, data)
    \/ ClientReceive

SpecOrder == Init /\ [][NextOrder]_vars

-----------------------------------------------------------------------------
(* A list request query by query, beside the requests that write *)

\* The thread that serves the list request.
ListThread == 1

\* Searches the list request is sent with: without criteria, and by each of
\* the difficulties the stored rows can have.
RaceData ==
    { [NoData EXCEPT !.chart_type = Some("#1")],
      [NoData EXCEPT !.chart_type = Some("#1"), !.difficulty = Some("Easy")],
      [NoData EXCEPT !.chart_type = Some("#1"), !.difficulty = Some("Intermediate")] }

\* The creation forms sent while the list request runs.
RaceForms == {f \in CreateForms : CreateFormValid(f) /\ f.category = Some("lunch")}

\* An account is logged in and the store holds what earlier requests left.
InitRace ==
    /\ users = {"u1"}
    /\ session = Some("u1")
    /\ store \in TablesUpTo(MaxRecipes)
    /\ next_id = Len(store) + 1
    /\ plt_open = 0
    /\ response = None
    /\ pyplot = <<>>
    /\ threads = <<>>
    /\ recipe = [cooking_time |-> 0, ingredients |-> <<>>]
    /\ ret = None

\* The frame of the list request: where it stands and its locals.
ListFrame(pc, data, filtered_recipes, values, status, df) ==
    [u \in {ListThread} |->
        [pc |-> pc, data |-> data, filtered_recipes |-> filtered_recipes,
         values |-> values, status |-> status, df |-> df]]

\* What the query `qs` of the handler returns when it is evaluated on the
\* table as it is now: the stored filters, and after the difficulty pass
\* the rows whose id that pass collected.
EvaluateQs(all, data, filtered_recipes) ==
    LET rows == stored_filters(all, data)
    IN  IF TruthyChoice(FieldValue(data, "difficulty"))
        THEN SelectSeq(rows, LAMBDA r : r.id \in filtered_recipes)
        ELSE rows

\* The list request arrives with valid search data and enters the search
\* branch: `qs = Recipe.objects.all()` and the filters build a query, which
\* is not evaluated yet.
ListEnter(data) ==
    /\ ListThread \notin DOMAIN threads
    /\ session # None
    /\ search_performed("GET", [is_bound |-> TRUE, is_valid |-> is_valid(Some(data))])
    /\ threads' = ListFrame("difficulty_pass", Some(data), {}, <<>>, 0, <<>>)
    /\ UNCHANGED <<users, session, store, plt_open, response, recipe, ret, next_id, pyplot>>

\* `for recipe in qs:` of the difficulty pass evaluates the query and
\* collects the ids of the rows whose difficulty() matches.
ListDifficultyPass ==
    /\ ListThread \in DOMAIN threads /\ threads[ListThread].pc = "difficulty_pass"
    /\ LET f        == threads[ListThread]
           wanted   == FieldValue(f.data, "difficulty")
           rows     == stored_filters(store, f.data)
           matching == IF TruthyChoice(wanted)
                       THEN SelectSeq(rows, LAMBDA r : difficulty(r) = wanted[1])
                       ELSE <<>>
       IN  threads' = ListFrame("exists", f.data,
                                {matching[i].id : i \in 1..Len(matching)}, <<>>, 0, <<>>)
    /\ UNCHANGED <<users, session, store, plt_open, response, recipe, ret, next_id, pyplot>>

\* `if qs.exists():` asks the database.
ListExists ==
    /\ ListThread \in DOMAIN threads /\ threads[ListThread].pc = "exists"
    /\ LET f == threads[ListThread]
       IN  threads' = IF EvaluateQs(store, f.data, f.filtered_recipes) # <<>>
                      THEN ListFrame("values", f.data, f.filtered_recipes, <<>>, 0, <<>>)
                      ELSE ListFrame("done", f.data, f.filtered_recipes, <<>>, 200, <<>>)
    /\ UNCHANGED <<users, session, store, plt_open, response, recipe, ret, next_id, pyplot>>

\* `pd.DataFrame(qs.values())` evaluates the query for the row values.
ListValues ==
    /\ ListThread \in DOMAIN threads /\ threads[ListThread].pc = "values"
    /\ LET f == threads[ListThread]
       IN  threads' = ListFrame("annotate", f.data, f.filtered_recipes,
                                EvaluateQs(store, f.data, f.filtered_recipes), 0, <<>>)
    /\ UNCHANGED <<users, session, store, plt_open, response, recipe, ret, next_id, pyplot>>

\* `[recipe.difficulty() for recipe in qs]` evaluates qs, and
\* `[len(recipe.ingredients_list()) for recipe in qs]` iterates the rows that
\* evaluation cached; both lists are attached to the DataFrame by position.
\* pandas raises ValueError when a list is not as long as the frame, and
\* recipes_df['name'] raises KeyError on a frame built from no rows: the
\* request then ends with a server error.  Otherwise the chart is drawn and
\* the table rendered.
ListAnnotate ==
    /\ ListThread \in DOMAIN threads /\ threads[ListThread].pc = "annotate"
    /\ LET f    == threads[ListThread]
           qs   == EvaluateQs(store, f.data, f.filtered_recipes)
           cols == annotate(qs)
       IN  IF f.values = <<>> \/ Len(qs) # Len(f.values)
           THEN /\ threads' = ListFrame("done", f.data, f.filtered_recipes, f.values,
                                        500, <<>>)
                /\ UNCHANGED <<pyplot, plt_open>>
           ELSE LET df == [i \in 1..Len(f.values) |->
                              [annotate(f.values)[i] EXCEPT
                                   !.difficulty = cols[i].difficulty,
                                   !.ingredients_count = cols[i].ingredients_count]]
                    gc == get_chart(pyplot, FieldValue(f.data, "chart_type"), df)
                IN  /\ threads' = ListFrame("done", f.data, f.filtered_recipes, f.values,
                                            200, df)
                    /\ pyplot' = gc.figs
                    /\ plt_open' = Len(gc.figs)
    /\ UNCHANGED <<users, session, store, response, recipe, ret, next_id>>

\* The response of the list request is sent.
ListReturn ==
    /\ ListThread \in DOMAIN threads /\ threads[ListThread].pc = "done"
    /\ threads' = <<>>
    /\ UNCHANGED <<users, session, store, plt_open, response, recipe, ret, next_id, pyplot>>

NextRace ==
    \/ \E data \in RaceData : ListEnter(data)
    \/ ListDifficultyPass
    \/ ListExists
    \/ ListValues
    \/ ListAnnotate
    \/ ListReturn
    \/ \E form \in RaceForms : RecipeCreate(form)
    \/ \E pk \in 1..MaxRecipes, t \in AdminTimes, moved \in BOOLEAN :
           AdminChangeRecipe(pk, t, moved)
    \/ DeleteUser("u1")
    \/ ClientReceive

SpecRace == InitRace /\ [][NextRace]_vars

-----------------------------------------------------------------------------
(* The list view's pagination *)

\* `paginate_by = 12`
paginate_by == 12

\* The decimal digits a page number is written with.
Digits == <<"0", "1", "2", "3", "4", "5", "6", "7", "8", "9">>

\* int(text) for a text of one character: the digit's value, None for the
\* ValueError of any other text.
int(text) ==
    IF \E d \in 1..Len(Digits) : Digits[d] = text
    THEN Some((CHOOSE d \in 1..Len(Digits) : Digits[d] = text) - 1)
    ELSE None

\* The `page` parameter of the query string: missing, empty, a number, the
\* word last, another word.
PageParams == {None, Some(""), Some("0"), Some("1"), Some("2"), Some("3"),
               Some("last"), Some("x")}

\* Paginator.num_pages with no orphans and an empty first page allowed.
num_pages(count) ==
    IF count = 0 THEN 1 ELSE (count + paginate_by - 1) \div paginate_by

\* get_queryset narrowed by the search criteria.
get_queryset_filtered(all, data) == apply_filters(all, Some(data))

\* ListView.get_queryset for `model = Recipe`: every row, whatever the request.
get_queryset(all, data) == all

\* ListView.paginate_queryset: `page = request.GET.get('page') or 1`, int(page)
\* or the word last, Http404 for any other text and for a number that is no
\* page of the paginator; otherwise the rows of that page.
paginate_queryset(queryset, page) ==
    LET last   == num_pages(Len(queryset))
        number == IF page = None \/ page = Some("") THEN Some(1)
                  ELSE IF int(page[1]) # None THEN int(page[1])
                  ELSE IF page[1] = "last" THEN Some(last)
                  ELSE None
    IN  IF number = None \/ number[1] < 1 \/ number[1] > last
        THEN [found |-> FALSE, number |-> 0, object_list |-> <<>>]
        ELSE LET bottom == (number[1] - 1) * paginate_by
                 top    == IF bottom + paginate_by > Len(queryset)
                           THEN Len(queryset) ELSE bottom + paginate_by
             IN  [found |-> TRUE, number |-> number[1],
                  object_list |-> SubSeq(queryset, bottom + 1, top)]

\* Searches the pages are requested with: no criteria, a category, a
\* difficulty, and a request without chart type.
PageData ==
    { [NoData EXCEPT !.chart_type = Some("#1")],
      [NoData EXCEPT !.chart_type = Some("#1"), !.category = Some("dinner")],
      [NoData EXCEPT !.chart_type = Some("#2"), !.difficulty = Some("Hard")],
      NoData }

\* The samples loaded for u1 into an empty table.
LoadedSamples == load_samples(SAMPLE_RECIPES, <<>>, 1, "u1").store

\* u1 is logged in; the table holds the first samples, none to all of them.
InitPage ==
    /\ users = {"u1"}
    /\ session = Some("u1")
    /\ store \in {SubSeq(LoadedSamples, 1, n) : n \in 0..Len(LoadedSamples)}
    /\ next_id = Len(LoadedSamples) + 1
    /\ plt_open = 0
    /\ response = None
    /\ pyplot = <<>>
    /\ threads = <<>>
    /\ recipe = [cooking_time |-> 0, ingredients |-> <<>>]
    /\ ret = None

\* GET or POST /recipes/?page=<page>: BaseListView.get paginates the
\* queryset (404 when there is no such page), then get_context_data adds the
\* search results; the page number is read from the query string for both
\* methods.
RecipeListPage(method, page, data) ==
    /\ response = None
    /\ LET request == [method |-> method, data |-> Some(data), page |-> page]
       IN  IF session = None
           THEN /\ response' = RedirectToLogin("recipes-list", request)
                /\ UNCHANGED plt_open
           ELSE LET p == paginate_queryset(get_queryset(store, data), page)
                    c == list_view(store, [i \in 1..plt_open |-> <<>>], method, data)
                IN  IF ~p.found
                    THEN /\ response' = Response("recipes-list", request, 404, None,
                                                 NoContext, NoLocals)
                         /\ UNCHANGED plt_open
                    ELSE /\ response' = Response("recipes-list", request, 200, None,
                                            [form |-> c.form, recipes_df |-> c.recipes_df,
                                             chart |-> c.chart, object |-> None,
                                             error_message |-> None,
                                             object_list |-> p.object_list,
                                             number |-> p.number],
                                            [searched |-> c.searched, qs |-> c.qs,
                                             df |-> c.df, loop |-> c.loop])
                         /\ plt_open' = Len(c.figs)
    /\ UNCHANGED <<users, session, store, recipe, ret, next_id, pyplot, threads>>

NextPage ==
    \/ \E method \in {"GET", "POST"}, page \in PageParams, data \in PageData :
           RecipeListPage(method, page, data)
    \/ \E data \in LoginData : Login(data)
    \/ Logout
    \/ ClientReceive

SpecPage == InitPage /\ [][NextPage]_vars

-----------------------------------------------------------------------------
(* Applying the name and ingredient filters to one stored recipe *)

\* Characters of the names, ingredients texts and terms searched.
SearchChars == {"a", "A", "b", ","}

\* A stored recipe with any name, and one with any ingredients text.
InitSearch ==
    /\ InitApp
    /\ recipe \in
           [id : {1}, name : TextsUpTo(SearchChars, MaxFieldLen), cooking_time : {9},
            ingredients : {<<"a", ",", "b">>}, category : {"lunch"}, user : {"u1"}]
           \cup
           [id : {1}, name : {<<"A", "b">>}, cooking_time : {9},
            ingredients : TextsUpTo(SearchChars, MaxFieldLen), category : {"lunch"},
            user : {"u1"}]
    /\ ret = None

\* The name filter and the ingredient filter of the list view, each applied
\* with the term to the table holding the recipe.
CallFilters(term) ==
    /\ ret = None
    /\ ret' = Some([method |-> "filter", term |-> term,
                    by_name |-> filter_name(<<recipe>>, Some(term)),
                    by_ingredient |-> filter_ingredient(<<recipe>>, Some(term))])
    /\ UNCHANGED <<appVars, recipe>>

NextSearch == \E term \in TextsUpTo(SearchChars, MaxTermLen) : CallFilters(term)

SpecSearch == InitSearch /\ [][NextSearch]_vars

-----------------------------------------------------------------------------
(* The list view searching one stored recipe by a submitted text *)

\* Characters of the submitted texts: a letter and the whitespace a client
\* can type around or instead of it.
SubmittedChars == {"a", " ", "\t"}

\* The text criteria of the search form.
TextFields == {"recipe_name", "ingredient"}

\* get_context_data for a GET whose query string carries the text under the
\* field and a chart type, on the table holding the recipe.
CallSearch(field, text) ==
    /\ ret = None
    /\ LET data == [NoData EXCEPT ![field] = Some(text), !.chart_type = Some("#1")]
           c    == list_view(<<recipe>>, pyplot, "GET", data)
       IN  /\ ret' = Some([method |-> "get_context_data", field |-> field,
                           submitted |-> Some(text), form |-> c.form,
                           searched |-> c.searched, qs |-> c.qs,
                           recipes_df |-> c.recipes_df])
           /\ pyplot' = c.figs
           /\ plt_open' = Len(c.figs)
    /\ UNCHANGED <<users, session, store, response, recipe, next_id, threads>>

NextClean ==
    \E field \in TextFields, text \in TextsUpTo(SubmittedChars, MaxTermLen) :
        CallSearch(field, text)

SpecClean == InitSearch /\ [][NextClean]_vars

-----------------------------------------------------------------------------
(* The parsed ingredients of a text, stated position by position *)

\* Positions where a comma-delimited piece of t starts.
PieceStarts(t) == {1} \cup {c + 1 : c \in {i \in 1..Len(t) : t[i] = ","}}

\* Last position of the piece starting at s (s - 1 for an empty piece).
PieceEnd(t, s) ==
    IF \E i \in s..Len(t) : t[i] = ","
    THEN (CHOOSE i \in s..Len(t) : t[i] = "," /\ \A j \in s..(i - 1) : t[j] # ",") - 1
    ELSE Len(t)

\* Positions of the piece starting at s that hold a non-whitespace character.
Inked(t, s) == {i \in s..PieceEnd(t, s) : t[i] \notin Whitespace}

\* Starts of the pieces that are not empty after trimming.
TokenStarts(t) == {s \in PieceStarts(t) : Inked(t, s) # {}}

Min(S) == CHOOSE x \in S : \A y \in S : x <= y
Max(S) == CHOOSE x \in S : \A y \in S : x >= y

\* The k-th token: the k-th non-blank piece, from its first to its last
\* non-whitespace character.
Tokens(t) ==
    [k \in 1..Cardinality(TokenStarts(t)) |->
        LET s == CHOOSE x \in TokenStarts(t) :
                     Cardinality({y \in TokenStarts(t) : y < x}) = k - 1
        IN  SubSeq(t, Min(Inked(t, s)), Max(Inked(t, s)))]

\* C2: ingredients_list() is the text split on commas, each piece trimmed,
\* blank pieces dropped, order and duplicates kept; the empty text gives the
\* empty list.
C2_IngredientsList ==
    ret # None =>
        /\ ret[1].value = Tokens(recipe.ingredients)
        /\ recipe.ingredients = <<>> => ret[1].value = <<>>

\* A text with a blank piece, padded tokens and a repeated token has been parsed.
C2_Witness ==
    /\ ret # None
    /\ recipe.ingredients = <<" ", "a", ",", ",", "a">>
    /\ ret[1].value = << <<"a">>, <<"a">> >>

-----------------------------------------------------------------------------
(* The list view's search *)

\* The response in flight is a rendered list page.
ListPage ==
    /\ response # None
    /\ response[1].view = "recipes-list"
    /\ response[1].status = 200

Req == response[1].request.data[1]
Ctx == response[1].context
Loc == response[1].locals

Ids(qs) == {qs[i].id : i \in 1..Len(qs)}

\* The four regions of section 4.1.
Region(t, n) ==
    CASE t < 10 /\ n < 4 -> "Easy"
      [] t < 10 /\ n >= 4 -> "Medium"
      [] t >= 10 /\ n < 4 -> "Intermediate"
      [] t >= 10 /\ n >= 4 -> "Hard"

TokenCount(text) == Cardinality(TokenStarts(text))

\* A criterion is supplied when its value is present and not empty.
NameOk(r, d) == TruthyText(d.recipe_name) => icontains(r.name, d.recipe_name[1])
IngredientOk(r, d) == TruthyText(d.ingredient) => icontains(r.ingredients, d.ingredient[1])
CategoryOk(r, d) == TruthyChoice(d.category) => r.category = d.category[1]
DifficultyOk(r, d) ==
    TruthyChoice(d.difficulty) =>
        Region(r.cooking_time, TokenCount(r.ingredients)) = d.difficulty[1]

Stored == {store[i] : i \in 1..Len(store)}

\* C3: the filtered result of a valid search is exactly the stored recipes
\* that satisfy every supplied criterion, and applying the four filters in
\* the opposite order gives the same result.
C3_FilterConjunction ==
    (ListPage /\ Loc.searched) =>
        /\ {Loc.qs[i] : i \in 1..Len(Loc.qs)} =
               {r \in Stored : /\ NameOk(r, Req) /\ IngredientOk(r, Req)
                               /\ CategoryOk(r, Req) /\ DifficultyOk(r, Req)}
        /\ Loc.qs =
               filter_name(
                   filter_ingredient(
                       filter_category(
                           filter_difficulty(store, Req.difficulty),
                           Req.category),
                       Req.ingredient),
                   Req.recipe_name)

\* A search with all four criteria supplied kept one recipe and dropped another.
C3_Witness ==
    /\ ListPage /\ Loc.searched
    /\ TruthyText(Req.recipe_name) /\ TruthyText(Req.ingredient)
    /\ TruthyChoice(Req.category) /\ TruthyChoice(Req.difficulty)
    /\ Len(Loc.qs) = 1 /\ Len(store) = 2

NoCriteria(d) ==
    /\ ~TruthyText(d.recipe_name) /\ ~TruthyText(d.ingredient)
    /\ ~TruthyChoice(d.category) /\ ~TruthyChoice(d.difficulty)

\* C4 as stated: a list request that supplies no filter value returns the
\* full collection as its filtered result.
C4_NoCriteriaAnyRequest ==
    (ListPage /\ NoCriteria(Req) /\ store # <<>>) =>
        /\ Loc.qs = store
        /\ Ctx.recipes_df # None /\ Len(Ctx.recipes_df[1]) = Len(store)

\* C4 amended: a valid search (its chart type is one of the three) that
\* supplies no filter value returns the full collection as its filtered
\* result; absent and empty values pass every recipe through.
C4_NoCriteriaValidSearch ==
    (ListPage /\ NoCriteria(Req) /\ Req.chart_type # None
        /\ Req.chart_type[1] \in CHART_CHOICES) =>
        /\ Loc.searched
        /\ Loc.qs = store
        /\ store # <<>> => (Ctx.recipes_df # None /\ Len(Ctx.recipes_df[1]) = Len(store))

\* A search whose four criteria are present but empty returned both stored recipes.
C4_Witness ==
    /\ ListPage /\ Loc.searched
    /\ Req.recipe_name = Some(<<>>) /\ Req.difficulty = Some("")
    /\ Len(store) = 2 /\ Loc.qs = store

\* C5: with a difficulty criterion d, the result is exactly the recipes that
\* pass the name, ingredient and category criteria and have difficulty d, and
\* the difficulty loop iterated exactly the rows that passed those three.
C5_DifficultyFilter ==
    (ListPage /\ Loc.searched /\ TruthyChoice(Req.difficulty)) =>
        LET survivors == {r \in Stored : NameOk(r, Req) /\ IngredientOk(r, Req)
                                         /\ CategoryOk(r, Req)}
        IN  /\ \A i \in 1..Len(Loc.qs) :
                   Region(Loc.qs[i].cooking_time, TokenCount(Loc.qs[i].ingredients))
                       = Req.difficulty[1]
            /\ \A r \in survivors :
                   Region(r.cooking_time, TokenCount(r.ingredients)) = Req.difficulty[1]
                       => r \in {Loc.qs[i] : i \in 1..Len(Loc.qs)}
            /\ {Loc.loop[i] : i \in 1..Len(Loc.loop)} = {r.id : r \in survivors}
            /\ Ids(Loc.qs) \subseteq {r.id : r \in survivors}

\* A difficulty search ran its loop on a row that an earlier filter had left
\* and dropped it, while another stored row never reached the loop.
C5_Witness ==
    /\ ListPage /\ Loc.searched /\ TruthyChoice(Req.difficulty)
    /\ Len(store) = 2 /\ Len(Loc.loop) = 1 /\ Loc.qs = <<>>

\* C6 as stated: a search that matched nothing and a request in which no
\* search was performed never hand the page the same result table and chart.
C6_ResultStateDistinct ==
    (ListPage /\ Loc.searched /\ Loc.qs = <<>>) =>
        LET plain == get_context_data(store, <<>>, "GET", Some(NoData))
        IN  <<Ctx.recipes_df, Ctx.chart>> # <<plain.recipes_df, plain.chart>>

\* C6 amended: both cases hand the page no result table and no chart; what
\* distinguishes them is the search form of the context, which is bound and
\* valid exactly when a search was performed.
C6_FormDistinguishes ==
    ListPage =>
        /\ Loc.searched <=> (Ctx.form.is_bound /\ Ctx.form.is_valid)
        /\ (~Loc.searched \/ Loc.qs = <<>>) => (Ctx.recipes_df = None /\ Ctx.chart = None)

\* A search over a non-empty store matched nothing.
C6_Witness ==
    /\ ListPage /\ Loc.searched /\ Loc.qs = <<>> /\ store # <<>>
    /\ Ctx.form.is_valid /\ Ctx.recipes_df = None

\* C7: every row of the result carries the difficulty and the ingredient
\* count of that row's own cooking time and ingredients text.
C7_RowAnnotations ==
    (ListPage /\ Loc.searched /\ Loc.qs # <<>>) =>
        /\ Len(Loc.df) = Len(Loc.qs) /\ Len(Ctx.recipes_df[1]) = Len(Loc.qs)
        /\ \A i \in 1..Len(Loc.df) :
               LET row == Loc.df[i]
                   n   == TokenCount(row.ingredients)
               IN  /\ row.ingredients_count = n
                   /\ row.difficulty = Region(row.cooking_time, n)
                   /\ \E r \in Stored : /\ r.id = row.id /\ r.name = row.name
                                        /\ r.cooking_time = row.cooking_time
                                        /\ r.ingredients = row.ingredients
                   /\ Ctx.recipes_df[1][i] =
                          [name |-> row.name, cooking_time |-> row.cooking_time,
                           difficulty |-> row.difficulty, ingredients_count |-> n,
                           category |-> row.category]

\* A result of two rows that differ in both difficulty and ingredient count.
C7_Witness ==
    /\ ListPage /\ Loc.searched /\ Len(Loc.df) = 2
    /\ Loc.df[1].difficulty = "Hard" /\ Loc.df[2].difficulty = "Easy"
    /\ Loc.df[1].ingredients_count = 4 /\ Loc.df[2].ingredients_count = 2

\* The first ten base64 characters of any PNG file (its signature).
PNG_B64_PREFIX == <<"i", "V", "B", "O", "R", "w", "0", "K", "G", "g">>

\* C8: a valid search with a non-empty result yields a non-empty
\* base64-encoded PNG for each chart type, with an empty result no chart.
C8_ChartPresence ==
    (ListPage /\ Loc.searched) =>
        /\ Req.chart_type[1] \in {"#1", "#2", "#3"}
        /\ Loc.qs # <<>> =>
               /\ Ctx.chart # None
               /\ Len(Ctx.chart[1]) > 0 /\ Len(Ctx.chart[1]) % 4 = 0
               /\ SubSeq(Ctx.chart[1], 1, 10) = PNG_B64_PREFIX
        /\ Loc.qs = <<>> => Ctx.chart = None

\* A pie chart was rendered for a non-empty result.
C8_Witness ==
    /\ ListPage /\ Loc.searched /\ Req.chart_type = Some("#2")
    /\ Len(Loc.qs) = 2 /\ Ctx.chart # None

\* C9: get_chart with a chart type other than '#1', '#2', '#3' returns None.
C9_UnknownChartTypeNone ==
    (ret # None /\ ret[1].chart_type \notin {Some("#1"), Some("#2"), Some("#3")}) =>
        ret[1].value = None

\* C10: a list request whose chart type is missing or unrecognised is
\* answered with the rendered page and no chart.
C10_InvalidChartType ==
    (response # None /\ response[1].view = "recipes-list" /\ session # None
        /\ (Req.chart_type = None \/ Req.chart_type[1] \notin {"#1", "#2", "#3"})) =>
        /\ response[1].status = 200
        /\ Ctx.chart = None
        /\ ~Loc.searched

\* A request with the unknown chart type '#4' over a non-empty store was rendered.
C10_Witness ==
    /\ ListPage /\ Req.chart_type = Some("#4") /\ store # <<>>
    /\ Ctx.chart = None

-----------------------------------------------------------------------------
(* Chart rendering across invocations *)

\* C11: when get_chart is invoked again and again, the figure an invocation
\* saves holds exactly the artists of its own chart type and data, and the
\* image it returns is the encoding of those alone, whatever earlier
\* invocations drew.
C11_NoLeakSequential ==
    ret # None =>
        LET own == DrawChart(ret[1].chart_type, ret[1].data)
        IN  /\ pyplot[Len(pyplot)] = own
            /\ ret[1].value = Some(b64encode(savefig(own)))

\* A one-bar chart was rendered after an earlier invocation had drawn.
C11_Witness ==
    /\ ret # None /\ ret[1].drawn_before
    /\ ret[1].chart_type = Some("#1") /\ Len(ret[1].data) = 1
    /\ Len(pyplot[Len(pyplot)]) = 1

\* C12: when two requests run get_chart concurrently, the image returned to
\* each holds exactly the artists of that request's own chart type and data,
\* under every interleaving of the statements of the two invocations.
C12_ConcurrentIsolation ==
    \A t \in DOMAIN threads :
        threads[t].pc = "done" =>
            threads[t].chart =
                Some(b64encode(savefig(DrawChart(threads[t].chart_type, threads[t].data))))

-----------------------------------------------------------------------------
(* Access control and ownership *)

ProtectedViews == {"recipes-list", "recipe-detail", "recipe-add"}

\* The response discloses recipe data: a result table, a chart, a recipe or
\* rows held by the handler.
Discloses(resp) ==
    \/ resp.context.recipes_df # None
    \/ resp.context.chart # None
    \/ resp.context.object # None
    \/ resp.locals.qs # <<>>
    \/ resp.locals.df # <<>>

\* C13: a request to the list, detail or creation path made without an
\* authenticated session is answered with a redirect to the login path,
\* discloses no recipe data and leaves users and recipes as they were; a
\* response disclosing recipe data goes to an authenticated session only, and
\* a session becomes authenticated only by a successful login or signup.
C13_LoginRequired ==
    [][ /\ (response = None /\ response' # None) =>
             /\ (session = None /\ response'[1].view \in ProtectedViews) =>
                    /\ response'[1].status = 302
                    /\ response'[1].location = Some("login")
                    /\ ~Discloses(response'[1])
                    /\ store' = store /\ users' = users /\ next_id' = next_id
                    /\ session' = None
             /\ Discloses(response'[1]) => (session # None /\ session' = session)
        /\ (session = None /\ session' # None) =>
             /\ response' # None
             /\ response'[1].view \in {"login", "signup"}
             /\ response'[1].status = 302
      ]_vars

\* After a logout, the detail page of a stored recipe was requested and
\* answered with the redirect.
C13_Witness ==
    /\ response # None /\ response[1].view = "recipe-detail"
    /\ session = None /\ store # <<>>
    /\ response[1].status = 302

\* The rows of the table by primary key.
RowOf(table, pk) == CHOOSE r \in {table[i] : i \in 1..Len(table)} : r.id = pk

\* C14: a recipe created through the creation form is owned by the user of
\* the session that submitted it, whatever user the submitted data names,
\* and a create, list or detail request leaves every existing recipe with
\* the owner it had.
C14_OwnerIsSessionUser ==
    [][ (response = None /\ response' # None /\ response'[1].view \in ProtectedViews) =>
            /\ \A pk \in Ids(store) :
                   /\ pk \in Ids(store')
                   /\ RowOf(store', pk).user = RowOf(store, pk).user
            /\ \A pk \in Ids(store') \ Ids(store) :
                   /\ response'[1].view = "recipe-add"
                   /\ session # None
                   /\ RowOf(store', pk).user = session[1]
      ]_vars

\* A form naming u2 as user was submitted in u1's session and saved for u1.
C14_Witness ==
    /\ response # None /\ response[1].view = "recipe-add"
    /\ response[1].status = 302
    /\ response[1].request.data[1].user = Some("u2")
    /\ session = Some("u1")
    /\ store # <<>> /\ store[Len(store)].user = "u1"

\* The submitted creation data lack a valid name, cooking time or ingredients.
BadRequiredField(d) ==
    \/ d.name = None \/ \A i \in 1..Len(d.name[1]) : d.name[1][i] \in Whitespace
    \/ Len(strip(d.name[1])) > 120
    \/ d.cooking_time = None \/ d.cooking_time[1] < 0
    \/ d.ingredients = None
    \/ \A i \in 1..Len(d.ingredients[1]) : d.ingredients[1][i] \in Whitespace

\* C15: a creation form submitted with a missing or invalid name, cooking
\* time or ingredients creates no recipe: the store stays as it was and the
\* page with the form and its errors is returned, not a redirect.
C15_InvalidFormCreatesNothing ==
    [][ (/\ response = None /\ response' # None
         /\ response'[1].view = "recipe-add" /\ session # None
         /\ BadRequiredField(response'[1].request.data[1])) =>
            /\ store' = store /\ next_id' = next_id
            /\ response'[1].status = 200
            /\ response'[1].location = None
            /\ response'[1].context.form.errors # {}
            /\ response'[1].context.form.errors \subseteq
                   {"name", "cooking_time", "ingredients", "category"}
      ]_vars

\* A form without ingredients was submitted in a session over a non-empty
\* store and rendered again.
C15_Witness ==
    /\ response # None /\ response[1].view = "recipe-add"
    /\ session # None /\ store # <<>>
    /\ response[1].request.data[1].ingredients = None
    /\ response[1].status = 200
    /\ response[1].context.form.errors = {"ingredients"}

-----------------------------------------------------------------------------
(* The stored recipes *)

C17_OwnerExistsCascade ==
    [][ /\ \A i \in 1..Len(store') : store'[i].user \in users'
        /\ (users' # users /\ users' \subseteq users) =>
               /\ Ids(store') = {pk \in Ids(store) : RowOf(store, pk).user \in users'}
               /\ \A pk \in Ids(store') : RowOf(store', pk) = RowOf(store, pk)
      ]_vars

\* u1 and u2 each created a recipe, then the account u1 was deleted: the
\* recipe of u2 is the only one left.
C17_Witness ==
    /\ users = {"u2"} /\ next_id = 3
    /\ Len(store) = 1 /\ store[1].user = "u2" /\ store[1].id = 2

-----------------------------------------------------------------------------
(* Searching *)

\* C18: over the same store and with the same parameter values, a search
\* sent by POST and one sent by GET give the same result table and the same
\* chart: every answered list request agrees with the list view evaluated
\* for the other method.
C18_PostEqualsGet ==
    ListPage =>
        LET other == IF response[1].request.method = "GET" THEN "POST" ELSE "GET"
            o     == list_view(store, <<>>, other, Req)
        IN  /\ o.recipes_df = Ctx.recipes_df
            /\ o.chart = Ctx.chart
            /\ o.qs = Loc.qs
            /\ o.searched = Loc.searched

\* A POST search by name that kept one of two stored recipes and drew a chart.
C18_Witness ==
    /\ ListPage /\ response[1].request.method = "POST"
    /\ Req.recipe_name # None
    /\ Loc.searched /\ Len(store) = 2 /\ Len(Loc.qs) = 1
    /\ Ctx.recipes_df # None /\ Ctx.chart # None

\* Two characters are the same letter in either case, or the same character.
SameLetter(c, d) == c = d \/ {c, d} = {"a", "A"} \/ {c, d} = {"b", "B"}

\* The term occurs in the text at some offset, letter case aside.
OccursIn(term, text) ==
    \E k \in 0..(Len(text) - Len(term)) :
        \A j \in 1..Len(term) : SameLetter(text[k + j], term[j])

\* C19: the name filter keeps a recipe iff the term occurs in its name,
\* letter case aside, and the ingredient filter keeps it iff the term occurs
\* in the raw ingredients text, letter case aside: inside a token as well as
\* across a comma.
C19_SubstringFilters ==
    (ret # None /\ ret[1].method = "filter") =>
        /\ ret[1].by_name = (IF OccursIn(ret[1].term, recipe.name)
                             THEN <<recipe>> ELSE <<>>)
        /\ ret[1].by_ingredient = (IF OccursIn(ret[1].term, recipe.ingredients)
                                   THEN <<recipe>> ELSE <<>>)

\* The term 'A,' kept a recipe whose ingredients text is 'ba,b': it lies
\* across the comma and differs in case, and no parsed ingredient holds it.
C19_Witness ==
    /\ ret # None /\ ret[1].method = "filter"
    /\ ret[1].term = <<"A", ",">>
    /\ recipe.ingredients = <<"b", "a", ",", "b">>
    /\ ret[1].by_ingredient = <<recipe>>
    /\ ret[1].by_name = <<>>

\* C20: the rows of a search result are in ascending primary-key order, and
\* a bar or line chart shows the recipes of the result in that order.
C20_ResultInPkOrder ==
    (ListPage /\ Loc.searched) =>
        /\ \A i, j \in 1..Len(Loc.qs) : i < j => Loc.qs[i].id < Loc.qs[j].id
        /\ \A i \in 1..Len(Loc.df) : Loc.df[i].id = Loc.qs[i].id
        /\ (Loc.qs # <<>> /\ Req.chart_type \in {Some("#1"), Some("#3")}) =>
               Ctx.chart = Some(b64encode(savefig(
                   [i \in 1..Len(Loc.qs) |->
                       [kind |-> IF Req.chart_type = Some("#1") THEN "bar" ELSE "point",
                        value |-> Loc.qs[i].cooking_time]])))

-----------------------------------------------------------------------------
(* Login, logout and signup *)

\* The submitted credentials are those of an existing account.
GoodCredentials(d, accounts) ==
    /\ d.username # None /\ d.password = Some("pw")
    /\ d.username[1] \in accounts

\* C21 as stated: a login POST that does not log the user in returns the
\* login page with an error message and leaves the session unauthenticated;
\* one that authenticates logs the session in and redirects to the list.
C21_FailedLoginUnauthenticated ==
    [][ (response = None /\ response' # None /\ response'[1].view = "login") =>
            LET d == response'[1].request.data[1]
            IN  IF GoodCredentials(d, users)
                THEN /\ session' = d.username
                     /\ response'[1].status = 302
                     /\ response'[1].location = Some("recipes-list")
                ELSE /\ response'[1].status = 200
                     /\ response'[1].context.error_message # None
                     /\ session' = None
      ]_vars

\* C21: a login POST that does not log the user in returns the login page
\* with an error message and leaves the session as it was (an unauthenticated
\* session stays unauthenticated); one that authenticates logs the session
\* in as that user and redirects to the recipe list.
C21_FailedLoginKeepsSession ==
    [][ (response = None /\ response' # None /\ response'[1].view = "login") =>
            LET d == response'[1].request.data[1]
            IN  IF GoodCredentials(d, users)
                THEN /\ session' = d.username
                     /\ response'[1].status = 302
                     /\ response'[1].location = Some("recipes-list")
                ELSE /\ response'[1].status = 200
                     /\ response'[1].location = None
                     /\ response'[1].context.error_message # None
                     /\ session' = session
                     /\ session = None => session' = None
      ]_vars

\* The wrong password was posted for the existing account u1 from a session
\* without login, and the login page came back with the error message.
C21_Witness ==
    /\ response # None /\ response[1].view = "login"
    /\ response[1].request.data[1] = [username |-> Some("u1"), password |-> Some("other")]
    /\ "u1" \in users /\ session = None
    /\ response[1].status = 200
    /\ response[1].context.error_message = Some("Invalid username or password")

\* C22: a logout request leaves the session unauthenticated and succeeds,
\* changing neither accounts nor recipes, also when the session was
\* unauthenticated already; an unauthenticated session becomes authenticated
\* only by a successful login or signup, and until then every request to a
\* protected path is redirected to login.
C22_LogoutUntilLogin ==
    [][ /\ (response = None /\ response' # None /\ response'[1].view = "logout") =>
             /\ session' = None
             /\ response'[1].status = 200
             /\ users' = users /\ store' = store /\ next_id' = next_id
        /\ (session = None /\ session' # None) =>
             /\ response' # None
             /\ response'[1].view \in {"login", "signup"}
             /\ response'[1].status = 302
             /\ response'[1].request.data[1].username = session'
        /\ (/\ session = None /\ response = None /\ response' # None
            /\ response'[1].view \in ProtectedViews) =>
             /\ response'[1].status = 302
             /\ response'[1].location = Some("login")
             /\ session' = None
      ]_vars

\* A session that had created a recipe was logged out.
C22_Witness ==
    /\ response # None /\ response[1].view = "logout"
    /\ response[1].status = 200
    /\ session = None /\ store # <<>>

\* C23: a valid signup POST (free username, equal passwords) creates exactly
\* one account, logs it in and redirects to the recipe list; an invalid one
\* creates no account, leaves the session as it was and returns the form
\* with an error message.
C23_Signup ==
    [][ (response = None /\ response' # None /\ response'[1].view = "signup") =>
            LET d == response'[1].request.data[1]
            IN  IF /\ d.username # None /\ d.username[1] \notin users
                   /\ d.password1 # None /\ d.password2 = d.password1
                THEN /\ users' = users \cup {d.username[1]}
                     /\ Cardinality(users') = Cardinality(users) + 1
                     /\ session' = d.username
                     /\ response'[1].status = 302
                     /\ response'[1].location = Some("recipes-list")
                ELSE /\ users' = users
                     /\ session' = session
                     /\ response'[1].status = 200
                     /\ response'[1].location = None
                     /\ response'[1].context.error_message # None
      ]_vars

\* The session of u2 posted a signup for the taken username u1 and got the
\* form back with the error message.
C23_Witness ==
    /\ response # None /\ response[1].view = "signup"
    /\ response[1].request.data[1].username = Some("u1")
    /\ response[1].request.data[1].password2 = Some("pw")
    /\ users = {"u1", "u2"} /\ session = Some("u2")
    /\ response[1].status = 200
    /\ response[1].context.error_message = Some("Please correct the errors below")

-----------------------------------------------------------------------------
(* The pie chart *)

\* The colour designated for a difficulty.
DesignatedColor(label) ==
    CASE label = "Easy" -> "#2ecc71"
      [] label = "Medium" -> "#f39c12"
      [] label = "Intermediate" -> "#e67e22"
      [] label = "Hard" -> "#e74c3c"

\* C24: in a pie chart every slice has the colour designated for its
\* difficulty: Easy green, Medium orange, Intermediate dark orange, Hard red.
C24_PieColours ==
    (ret # None /\ ret[1].method = "get_chart" /\ ret[1].chart_type = Some("#2")) =>
        LET fig == pyplot[Len(pyplot)]
        IN  \A k \in 1..Len(fig) :
                fig[k].kind = "wedge" => fig[k].color = DesignatedColor(fig[k].label)

-----------------------------------------------------------------------------
(* The sample-data loader *)

Names(table) == {table[i].name : i \in 1..Len(table)}

\* C25: a run of the loader that repeats the previous run (same username, on
\* the store that run left) creates no recipe and reports Created: 0; no run
\* creates a recipe under a name the store already holds, and no run changes
\* an existing recipe.
C25_LoaderIdempotent ==
    [][ (ret' # ret /\ ret' # None /\ ret'[1].method = "load_sample_recipes") =>
            /\ ret'[1].again => (store' = store /\ ret'[1].value = Some(0))
            /\ \A pk \in Ids(store) :
                   pk \in Ids(store') /\ RowOf(store', pk) = RowOf(store, pk)
            /\ \A pk \in Ids(store') \ Ids(store) :
                   RowOf(store', pk).name \notin Names(store)
      ]_vars

-----------------------------------------------------------------------------
(* Read-only requests *)

\* A list or detail request is answered in this step.
ReadRequest ==
    /\ response = None
    /\ response' # None
    /\ response'[1].view \in {"recipes-list", "recipe-detail"}

\* C26: a list/search request or a detail request leaves the recipe store
\* and the user table as they were, and its result is the one determined by
\* the store and the request parameters alone: the list page's form, table
\* and chart are those computed from the store and the parameters with no
\* plotting state left by earlier requests, the detail page's recipe is the
\* stored row of that primary key.
C26_ReadsLeaveStore ==
    [][ ReadRequest =>
            LET r == response'[1]
            IN  /\ store' = store
                /\ users' = users
                /\ next_id' = next_id
                /\ session' = session
                /\ (r.view = "recipes-list" /\ r.status = 200) =>
                       LET c == list_view(store, <<>>, r.request.method, r.request.data[1])
                       IN  /\ r.context.form = c.form
                           /\ r.context.recipes_df = c.recipes_df
                           /\ r.context.chart = c.chart
                /\ (r.view = "recipe-detail" /\ r.status = 200) =>
                       /\ r.context.object # None
                       /\ r.context.object[1].id \in Ids(store)
                       /\ r.context.object[1] = RowOf(store, r.context.object[1].id)
      ]_vars

\* A list page with a table and a chart was computed over a full store that
\* an earlier chart request had left figures behind for.
C26_Witness ==
    /\ ListPage
    /\ Ctx.recipes_df # None
    /\ Ctx.chart # None
    /\ Len(store) = MaxRecipes
    /\ plt_open > 0

-----------------------------------------------------------------------------
(* The list request beside the requests that write *)

\* C27: whatever other requests create, edit or delete while the list
\* request runs, the list request ends without error, and every row of its
\* result table carries the difficulty and the ingredient count computed
\* from that row's own values and has the difficulty asked for.
C27_ListUnderWrites ==
    (ListThread \in DOMAIN threads /\ threads[ListThread].pc = "done") =>
        LET f      == threads[ListThread]
            wanted == FieldValue(f.data, "difficulty")
        IN  /\ f.status = 200
            /\ \A i \in 1..Len(f.df) :
                   /\ f.df[i].difficulty = difficulty(f.df[i])
                   /\ f.df[i].ingredients_count = Len(ingredients_list(f.df[i]))
                   /\ TruthyChoice(wanted) => f.df[i].difficulty = wanted[1]

-----------------------------------------------------------------------------
(* Submitted and cleaned text criteria *)

\* C28: when the search form is valid and cleans the submitted recipe-name
\* or ingredient text to the empty text, the list view filters as if the
\* criterion were absent: the stored recipe is in the result.
C28_CleanedEmptyIsAbsent ==
    (/\ ret # None
     /\ ret[1].method = "get_context_data"
     /\ ret[1].searched
     /\ CharFieldClean(ret[1].submitted) = <<>>) =>
        /\ ret[1].qs = <<recipe>>
        /\ ret[1].recipes_df # None

-----------------------------------------------------------------------------
(* Pages of the recipe list *)

\* The list view has answered a logged-in user's request.
PageAnswered ==
    /\ response # None
    /\ response[1].view = "recipes-list"
    /\ response[1].status # 302

\* Number of pages the stored recipes fill, one when there is none.
PageCount == IF store = <<>> THEN 1 ELSE ((Len(store) - 1) \div paginate_by) + 1

\* The page number a `page` parameter names: the first page when it is
\* missing or empty, the last one for the word last, the number written;
\* zero when it names no page of the list.
PageNamed(page) ==
    IF page \in {None, Some("")} THEN 1
    ELSE IF page = Some("last") THEN PageCount
    ELSE IF \E n \in 1..PageCount : n < Len(Digits) /\ page = Some(Digits[n + 1])
    THEN CHOOSE n \in 1..PageCount : n < Len(Digits) /\ page = Some(Digits[n + 1])
    ELSE 0

\* The stored recipes of page n, in the order of the store.
PageRows(n) ==
    LET first == (n - 1) * paginate_by
        size  == IF Len(store) - first > paginate_by
                 THEN paginate_by ELSE Len(store) - first
    IN  [i \in 1..size |-> store[first + i]]

\* The list page's object_list and result table are the ones the claim
\* describes for page n: the page's rows of the whole store whatever the
\* criteria, and a table of every stored recipe matching the criteria.
PageAndTable(n) ==
    /\ response[1].status = 200
    /\ Ctx.object_list = PageRows(n)
    /\ Len(Ctx.object_list) <= paginate_by
    /\ Loc.searched =>
           /\ Loc.qs = apply_filters(store, response[1].request.data)
           /\ IF Loc.qs = <<>>
              THEN Ctx.recipes_df = None
              ELSE /\ Ctx.recipes_df # None
                   /\ Len(Ctx.recipes_df[1]) = Len(Loc.qs)
                   /\ \A i \in 1..Len(Loc.qs) :
                          Ctx.recipes_df[1][i].name = Loc.qs[i].name

\* C29 as stated: whatever `page` parameter a logged-in user's list request
\* carries, the page is rendered, its object_list is a page of the whole
\* store independent of the criteria, and its result table holds every
\* matching recipe.
C29_AnyPageRequested ==
    PageAnswered =>
        \E n \in 1..PageCount : PageAndTable(n)

\* C29 amended: when the `page` parameter names a page of the list, the page
\* is rendered with that page of the whole store as object_list, independent
\* of the criteria, and with a result table holding every matching recipe,
\* not only those on the page; when it names no page the request is answered
\* 404 and no table is rendered.
C29_ExistingPageRequested ==
    PageAnswered =>
        LET n == PageNamed(response[1].request.page)
        IN  IF n # 0
            THEN PageAndTable(n)
            ELSE /\ response[1].status = 404
                 /\ Ctx.recipes_df = None

\* The second page of a list of more than twelve recipes was rendered for a
\* search by category: the table holds the matching recipes, among them
\* recipes that are not on the page.
C29_Witness ==
    /\ PageAnswered
    /\ response[1].status = 200
    /\ Ctx.number = 2
    /\ Ctx.object_list # <<>>
    /\ response[1].request.data[1].category # None
    /\ Ctx.recipes_df # None
    /\ \E i \in 1..Len(Loc.qs) : Loc.qs[i].id \notin Ids(Ctx.object_list)

-----------------------------------------------------------------------------
(* Figures left open *)

\* C30: after any number of get_chart invocations the pyplot registry holds
\* no figure that an earlier invocation opened: only the figures of the last
\* invocation (the one clf made current and the one plt.figure opened).
C30_FiguresBounded ==
    ret # None => (Len(pyplot) <= 2 /\ plt_open <= 2)

====
